---- MODULE Spec2Model ----
(***************************************************************************)
(* Model of the indicator engine of src/chart/chartscript/ta.ts, of the    *)
(* BarData cache of src/chart/chartscript/series.ts and of the            *)
(* ChartScriptDrawingsModel.                                               *)
(*                                                                         *)
(* A JavaScript number is modelled exactly as a pair <<n, d>>:             *)
(*   <<n, d>> with d > 0, gcd(n, d) = 1   the finite value n/d             *)
(*   <<1, 0>>  +Infinity      <<-1, 0>>  -Infinity      <<0, 0>>  NaN      *)
(* Arithmetic is exact rational arithmetic with the IEEE-754 rules for     *)
(* NaN and the infinities (x/0, 0/0, Inf-Inf, comparisons with NaN).       *)
(* Rounding of doubles and the sign of zero are not modelled.              *)
(* A read outside an array (JavaScript `undefined`) is modelled as NaN,    *)
(* which is what `undefined` becomes in every arithmetic operation,        *)
(* comparison and isNaN test the engine applies to it.                     *)
(* Arrays are 0-indexed in the source: At(s, i) reads element i.           *)
(***************************************************************************)
EXTENDS Integers, Sequences, FiniteSets, TLC

VARIABLES
    high,       \* input sequence: high of every bar
    low,        \* input sequence: low of every bar
    close,      \* input sequence: close (or the single source series)
    volume,     \* input sequence: volume (or the second series s2)
    fn,         \* name of the function of ta.ts called last ("" before any call)
    arg,        \* the scalar parameters of that call
    out,        \* what the call returned: a sequence of returned sequences
    pc,         \* "idle" before the call, "running" inside a loop, "returned" after
    st,         \* locals of the running supertrend invocation
    sr,         \* locals of the running sar invocation
    bd,         \* a BarData object: candles, version, _cache
    dm,         \* a ChartScriptDrawingsModel: drawings, emissions of changed
    obs         \* history of the calls on bd and dm (not program state)

vars == <<high, low, close, volume, fn, arg, out, pc, st, sr, bd, dm, obs>>

-----------------------------------------------------------------------------
(* JavaScript numbers *)

NaN == <<0, 0>>
PInf == <<1, 0>>
NInf == <<-1, 0>>

AbsI(k) == IF k < 0 THEN -k ELSE k
SgnI(k) == IF k < 0 THEN -1 ELSE IF k > 0 THEN 1 ELSE 0

RECURSIVE GCD(_, _)
GCD(a, b) == IF b = 0 THEN a ELSE GCD(b, a % b)

Norm(n, d) ==
    IF d = 0 THEN <<SgnI(n), 0>>
    ELSE LET g == GCD(AbsI(n), AbsI(d))
             s == IF d < 0 THEN -1 ELSE 1
         IN  <<(s * n) \div g, (s * d) \div g>>

R(k) == <<k, 1>>
Q(n, d) == Norm(n, d)

isNaN(x) == x = NaN
IsFinite(x) == x[2] # 0

Neg(x) == <<-x[1], x[2]>>

Add(x, y) ==
    IF x[2] = 0 \/ y[2] = 0
    THEN IF isNaN(x) \/ isNaN(y) THEN NaN
         ELSE IF x[2] = 0 /\ y[2] = 0 THEN (IF x = y THEN x ELSE NaN)
         ELSE IF x[2] = 0 THEN x ELSE y
    ELSE LET g == GCD(x[2], y[2])
             l == (x[2] \div g) * y[2]
         IN  Norm(x[1] * (l \div x[2]) + y[1] * (l \div y[2]), l)

Sub(x, y) == Add(x, Neg(y))

Mul(x, y) ==
    IF x[2] = 0 \/ y[2] = 0
    THEN Norm(SgnI(x[1]) * SgnI(y[1]), 0)
    ELSE LET g1 == GCD(AbsI(x[1]), y[2])
             g2 == GCD(AbsI(y[1]), x[2])
         IN  Norm((x[1] \div g1) * (y[1] \div g2), (x[2] \div g2) * (y[2] \div g1))

\* 1/x; 1/0 is +Infinity (the sign of zero is not modelled)
Recip(x) ==
    IF isNaN(x) THEN NaN
    ELSE IF x[2] = 0 THEN R(0)
    ELSE IF x[1] < 0 THEN <<-x[2], -x[1]>>
    ELSE <<x[2], x[1]>>

Div(x, y) ==
    IF isNaN(x) \/ isNaN(y) THEN NaN
    ELSE IF x[2] = 0 /\ y[2] = 0 THEN NaN
    ELSE IF y[2] = 0 THEN R(0)
    ELSE IF y[1] = 0 THEN Norm(SgnI(x[1]), 0)
    ELSE Mul(x, Recip(y))

\* x < y, false when either is NaN
Lt(x, y) ==
    IF isNaN(x) \/ isNaN(y) THEN FALSE
    ELSE IF x[2] = 0 /\ y[2] = 0 THEN x[1] < y[1]
    ELSE IF x[2] = 0 THEN x[1] < 0
    ELSE IF y[2] = 0 THEN y[1] > 0
    ELSE x[1] * y[2] < y[1] * x[2]

Gt(x, y) == Lt(y, x)
\* x === y
Eq(x, y) == ~isNaN(x) /\ ~isNaN(y) /\ x = y
Le(x, y) == Lt(x, y) \/ Eq(x, y)
Ge(x, y) == Le(y, x)

mathAbs(x) == <<AbsI(x[1]), x[2]>>
mathMax2(x, y) == IF isNaN(x) \/ isNaN(y) THEN NaN ELSE IF Lt(x, y) THEN y ELSE x
mathMin2(x, y) == IF isNaN(x) \/ isNaN(y) THEN NaN ELSE IF Lt(y, x) THEN y ELSE x
mathMax3(x, y, z) == mathMax2(mathMax2(x, y), z)
mathMin3(x, y, z) == mathMin2(mathMin2(x, y), z)

\* Math.floor of a finite number, as an integer
mathFloor(x) == x[1] \div x[2]

\* Math.floor(Math.sqrt(x)) of a finite x >= 0, as an integer
RECURSIVE FloorSqrtFrom(_, _)
FloorSqrtFrom(k, m) == IF (k + 1) * (k + 1) > m THEN k ELSE FloorSqrtFrom(k + 1, m)
floorSqrt(x) == FloorSqrtFrom(0, mathFloor(x))

\* Math.sqrt(x): exact when x is the square of a rational; otherwise rounded
\* down to a multiple of 1/(d * SqrtGrid), d the denominator of x
SqrtGrid == 8

mathSqrt(x) ==
    IF isNaN(x) \/ x[1] < 0 THEN NaN
    ELSE IF x[2] = 0 THEN PInf
    ELSE Norm(FloorSqrtFrom(0, x[1] * x[2] * SqrtGrid * SqrtGrid), x[2] * SqrtGrid)

\* the number of iterations of `for (j = 0; j < length; j++)`
LoopCount(length) ==
    IF ~IsFinite(length) \/ length[1] <= 0 THEN 0
    ELSE -((-length[1]) \div length[2])

-----------------------------------------------------------------------------
(* Arrays *)

\* the values of i in `for (let i = 1; i < n; i++)`
From1(n) == 1..(IF n > 1 THEN n - 1 ELSE 0)

\* source[i] for an integer i; undefined (NaN) outside the array
At(s, i) == IF i >= 0 /\ i < Len(s) THEN s[i + 1] ELSE NaN

\* source[x] for a number x; undefined (NaN) unless x is an index of the array
AtQ(s, x) == IF IsFinite(x) /\ x[2] = 1 THEN At(s, x[1]) ELSE NaN

RECURSIVE SumSeq(_)
SumSeq(s) == IF Len(s) = 0 THEN R(0) ELSE Add(SumSeq(SubSeq(s, 1, Len(s) - 1)), s[Len(s)])

\* [f(0), ..., f(n-1)] is written [k \in 1..n |-> f(k-1)]

-----------------------------------------------------------------------------
(* CORE MOVING AVERAGES *)

\* sma dividing by the number of elements actually present in the window
sma_partial(source, length) ==
    LET len == mathFloor(length)
    IN  [k \in 1..Len(source) |->
            LET i == k - 1
                n == IF i + 1 < len THEN i + 1 ELSE len
            IN  Div(SumSeq([j \in 1..n |-> At(source, i - (j - 1))]), R(n))]

sma(source, length) ==
    LET len == mathFloor(length)
    IN  [k \in 1..Len(source) |->
            LET i == k - 1
            IN  IF i < len - 1 THEN NaN
                ELSE Div(SumSeq([j \in 1..len |-> At(source, i - (j - 1))]), R(len))]

RECURSIVE emaVal(_, _, _)
emaVal(source, multiplier, i) ==
    IF i = 0 THEN At(source, 0)
    ELSE LET prev == emaVal(source, multiplier, i - 1)
         IN  Add(Mul(Sub(At(source, i), prev), multiplier), prev)

\* ema with Wilder's multiplier 1 / len
ema_wilder(source, length) ==
    LET len == mathFloor(length)
        multiplier == Div(R(1), R(len))
    IN  [k \in 1..Len(source) |-> emaVal(source, multiplier, k - 1)]

ema(source, length) ==
    LET len == mathFloor(length)
        multiplier == Div(R(2), R(len + 1))
    IN  [k \in 1..Len(source) |-> emaVal(source, multiplier, k - 1)]

\* the first loop of rma: <<validCount, initSum, firstValidIdx>> after scanning
\* source[0..i-1], stopping once validCount reaches len
RECURSIVE rmaSeed(_, _, _)
rmaSeed(source, len, i) ==
    IF i = 0 THEN <<0, R(0), -1>>
    ELSE LET p == rmaSeed(source, len, i - 1)
         IN  IF p[1] < len /\ ~isNaN(At(source, i - 1))
             THEN <<p[1] + 1, Add(p[2], At(source, i - 1)),
                    IF p[1] + 1 = len THEN i - 1 ELSE p[3]>>
             ELSE p

\* rmaVal without the isNaN test on source[i]
RECURSIVE rmaVal_nohold(_, _, _, _, _)
rmaVal_nohold(source, alpha, firstValidIdx, seed, i) ==
    IF i <= firstValidIdx THEN seed
    ELSE LET prev == rmaVal_nohold(source, alpha, firstValidIdx, seed, i - 1)
         IN  Add(Mul(alpha, At(source, i)), Mul(Sub(R(1), alpha), prev))

RECURSIVE rmaVal(_, _, _, _, _)
rmaVal(source, alpha, firstValidIdx, seed, i) ==
    IF i <= firstValidIdx THEN seed
    ELSE LET prev == rmaVal(source, alpha, firstValidIdx, seed, i - 1)
         IN  IF ~isNaN(At(source, i))
             THEN Add(Mul(alpha, At(source, i)), Mul(Sub(R(1), alpha), prev))
             ELSE prev

rma(source, length) ==
    LET len == mathFloor(length)
        alpha == Div(R(1), R(len))
        s == rmaSeed(source, len, Len(source))
        firstValidIdx == s[3]
        seed == IF s[1] > 0 THEN Div(s[2], R(s[1])) ELSE NaN
    IN  [k \in 1..Len(source) |->
            LET i == k - 1
            IN  IF firstValidIdx < 0 \/ i < firstValidIdx THEN NaN
                ELSE rmaVal(source, alpha, firstValidIdx, seed, i)]

\* wma with the warm-up test off by one (i < len)
wma_offbyone(source, length) ==
    LET len == mathFloor(length)
    IN  [k \in 1..Len(source) |->
            LET i == k - 1
            IN  IF i < len THEN NaN
                ELSE Div(SumSeq([j \in 1..len |-> Mul(At(source, i - (j - 1)), R(len - (j - 1)))]),
                         SumSeq([j \in 1..len |-> R(len - (j - 1))]))]

wma(source, length) ==
    LET len == mathFloor(length)
    IN  [k \in 1..Len(source) |->
            LET i == k - 1
            IN  IF i < len - 1 THEN NaN
                ELSE Div(SumSeq([j \in 1..len |-> Mul(At(source, i - (j - 1)), R(len - (j - 1)))]),
                         SumSeq([j \in 1..len |-> R(len - (j - 1))]))]

swma(source) ==
    [k \in 1..Len(source) |->
        LET i == k - 1
        IN  IF i < 3 THEN NaN
            ELSE IF isNaN(At(source, i)) \/ isNaN(At(source, i - 1))
                    \/ isNaN(At(source, i - 2)) \/ isNaN(At(source, i - 3))
            THEN NaN
            ELSE Add(Add(Add(Div(At(source, i - 3), R(6)),
                             Div(Mul(At(source, i - 2), R(2)), R(6))),
                         Div(Mul(At(source, i - 1), R(2)), R(6))),
                     Div(At(source, i), R(6)))]

vwma(source, length, vol) ==
    LET srcVol == [k \in 1..Len(source) |-> Mul(source[k], At(vol, k - 1))]
        num == sma(srcVol, length)
        den == sma(vol, length)
    IN  [k \in 1..Len(num) |->
            IF Eq(At(den, k - 1), R(0)) THEN NaN ELSE Div(num[k], At(den, k - 1))]

hma(source, length) ==
    LET halfLen == mathFloor(Div(length, R(2)))
        sqrtLen == floorSqrt(length)
        wma1 == wma(source, R(halfLen))
        wma2 == wma(source, length)
        diff == [k \in 1..Len(wma1) |-> Sub(Mul(R(2), wma1[k]), At(wma2, k - 1))]
    IN  wma(diff, R(sqrtLen))

\* Math.exp(x) for x <= 0. e^x is irrational: it is rounded down to a power of
\* two, 2^(-ceil(-x)), which keeps what the engine relies on: the weight is
\* finite, positive, 1 at x = 0 and does not increase as x decreases.
mathExp(x) ==
    IF isNaN(x) THEN NaN
    ELSE IF x = NInf THEN R(0)
    ELSE Q(1, 2 ^ (-(x[1] \div x[2])))

almaWeights(len, offset, sigma) ==
    LET m == Mul(offset, R(len - 1))
        s == Div(R(len), sigma)
    IN  [k \in 1..len |->
            LET d == Sub(R(k - 1), m)
            IN  mathExp(Div(Neg(Mul(d, d)), Mul(Mul(R(2), s), s)))]

alma(source, length, offset, sigma) ==
    LET len == mathFloor(length)
        weights == almaWeights(len, offset, sigma)
        weightSum == SumSeq(weights)
    IN  [k \in 1..Len(source) |->
            LET i == k - 1
            IN  IF i < len - 1 THEN NaN
                ELSE Div(SumSeq([j \in 1..len |->
                                    Mul(At(source, i - (j - 1)), At(weights, len - 1 - (j - 1)))]),
                         weightSum)]

-----------------------------------------------------------------------------
(* UTILITY FUNCTIONS used by the indicators *)

RECURSIVE MaxSkipNaN(_, _)
MaxSkipNaN(w, acc) ==
    IF Len(w) = 0 THEN acc
    ELSE MaxSkipNaN(Tail(w), IF ~isNaN(Head(w)) THEN mathMax2(acc, Head(w)) ELSE acc)

RECURSIVE MinSkipNaN(_, _)
MinSkipNaN(w, acc) ==
    IF Len(w) = 0 THEN acc
    ELSE MinSkipNaN(Tail(w), IF ~isNaN(Head(w)) THEN mathMin2(acc, Head(w)) ELSE acc)

\* source[i], source[i-1], ..., one element per iteration of `for (j = 0; j < length; j++)`
Window(source, i, length) == [j \in 1..LoopCount(length) |-> At(source, i - (j - 1))]

\* highest without the isNaN test: Math.max over the whole window
RECURSIVE MaxAll(_, _)
MaxAll(w, acc) == IF Len(w) = 0 THEN acc ELSE MaxAll(Tail(w), mathMax2(acc, Head(w)))

highest_noskip(source, length) ==
    [k \in 1..Len(source) |->
        LET i == k - 1
        IN  IF Lt(R(i), Sub(length, R(1))) THEN NaN
            ELSE LET max == MaxAll(Window(source, i, length), NInf)
                 IN  IF Eq(max, NInf) THEN NaN ELSE max]

highest(source, length) ==
    [k \in 1..Len(source) |->
        LET i == k - 1
        IN  IF Lt(R(i), Sub(length, R(1))) THEN NaN
            ELSE LET max == MaxSkipNaN(Window(source, i, length), NInf)
                 IN  IF Eq(max, NInf) THEN NaN ELSE max]

lowest(source, length) ==
    [k \in 1..Len(source) |->
        LET i == k - 1
        IN  IF Lt(R(i), Sub(length, R(1))) THEN NaN
            ELSE LET min == MinSkipNaN(Window(source, i, length), PInf)
                 IN  IF Eq(min, PInf) THEN NaN ELSE min]

\* Mean Absolute Deviation
dev(source, length) ==
    LET avg == sma(source, length)
    IN  [k \in 1..Len(source) |->
            LET i == k - 1
                w == Window(source, i, length)
            IN  IF Lt(R(i), Sub(length, R(1))) THEN NaN
                ELSE Div(SumSeq([j \in 1..Len(w) |-> mathAbs(Sub(w[j], At(avg, i)))]), length)]

variance(source, length, biased) ==
    LET avg == sma(source, length)
    IN  [k \in 1..Len(source) |->
            LET i == k - 1
                w == Window(source, i, length)
            IN  IF Lt(R(i), Sub(length, R(1))) THEN NaN
                ELSE Div(SumSeq([j \in 1..Len(w) |->
                                    Mul(Sub(w[j], At(avg, i)), Sub(w[j], At(avg, i)))]),
                         IF biased THEN length ELSE Sub(length, R(1)))]

-----------------------------------------------------------------------------
(* MOMENTUM INDICATORS *)

rsiChanges(source) ==
    [k \in From1(Len(source)) |-> Sub(At(source, k), At(source, k - 1))]

rsiGains(source) ==
    LET changes == rsiChanges(source)
    IN  [k \in 1..Len(changes) |-> IF Gt(changes[k], R(0)) THEN changes[k] ELSE R(0)]

\* losses without the sign flip (c < 0 ? c : 0)
rsiLosses_noflip(source) ==
    LET changes == rsiChanges(source)
    IN  [k \in 1..Len(changes) |-> IF Lt(changes[k], R(0)) THEN changes[k] ELSE R(0)]

\* losses as the size of every change (Math.abs(c))
rsiLosses_abs(source) ==
    LET changes == rsiChanges(source)
    IN  [k \in 1..Len(changes) |-> mathAbs(changes[k])]

rsiLosses(source) ==
    LET changes == rsiChanges(source)
    IN  [k \in 1..Len(changes) |-> IF Lt(changes[k], R(0)) THEN Neg(changes[k]) ELSE R(0)]

\* rsiValue without the avgLoss === 0 guard
rsiValue_noguard(avgGain, avgLoss) ==
    Sub(R(100), Div(R(100), Add(R(1), Div(avgGain, avgLoss))))

\* one pushed element of rsi, from the two Wilder averages at the same index
rsiValue(avgGain, avgLoss) ==
    IF Eq(avgLoss, R(0)) THEN R(100)
    ELSE LET rs == Div(avgGain, avgLoss)
         IN  Sub(R(100), Div(R(100), Add(R(1), rs)))

rsi(source, length) ==
    LET avgGains == rma(rsiGains(source), length)
        avgLosses == rma(rsiLosses(source), length)
    IN  <<NaN>> \o [k \in 1..Len(avgGains) |-> rsiValue(avgGains[k], At(avgLosses, k - 1))]

macd(source, fastLength, slowLength, signalLength) ==
    LET fastEma == ema(source, fastLength)
        slowEma == ema(source, slowLength)
        macdLine == [k \in 1..Len(fastEma) |-> Sub(fastEma[k], At(slowEma, k - 1))]
        signalLine == ema(macdLine, signalLength)
        histogram == [k \in 1..Len(macdLine) |-> Sub(macdLine[k], At(signalLine, k - 1))]
    IN  <<macdLine, signalLine, histogram>>

stoch(c, h, l, kPeriod, kSmooth, dSmooth) ==
    LET lowestLow == lowest(l, kPeriod)
        highestHigh == highest(h, kPeriod)
        rawK == [k \in 1..Len(c) |->
                    LET range == Sub(At(highestHigh, k - 1), At(lowestLow, k - 1))
                    IN  IF Eq(range, R(0)) THEN R(50)
                        ELSE Mul(Div(Sub(c[k], At(lowestLow, k - 1)), range), R(100))]
        kk == sma(rawK, kSmooth)
        d == sma(kk, dSmooth)
    IN  <<kk, d>>

typicalPrice(h, l, c) ==
    [k \in 1..Len(h) |-> Div(Add(Add(h[k], At(l, k - 1)), At(c, k - 1)), R(3))]

cci(h, l, c, length) ==
    LET tp == typicalPrice(h, l, c)
        tpSma == sma(tp, length)
        meanDev == dev(tp, length)
    IN  [k \in 1..Len(tp) |->
            IF Eq(At(meanDev, k - 1), R(0)) THEN R(0)
            ELSE Div(Sub(tp[k], At(tpSma, k - 1)), Mul(Q(15, 1000), At(meanDev, k - 1)))]

cmo(source, length) ==
    [k \in 1..Len(source) |->
        LET i == k - 1
            change == [j \in 1..LoopCount(length) |->
                          Sub(At(source, i - (j - 1)), At(source, i - (j - 1) - 1))]
            sumUp == SumSeq([j \in 1..Len(change) |->
                                IF Gt(change[j], R(0)) THEN change[j] ELSE R(0)])
            sumDown == SumSeq([j \in 1..Len(change) |->
                                  IF Gt(change[j], R(0)) THEN R(0) ELSE Neg(change[j])])
            total == Add(sumUp, sumDown)
        IN  IF Lt(R(i), length) THEN NaN
            ELSE IF Eq(total, R(0)) THEN R(0)
            ELSE Mul(Div(Sub(sumUp, sumDown), total), R(100))]

mfi(h, l, c, vol, length) ==
    LET tp == typicalPrice(h, l, c)
        mf == [k \in 1..Len(tp) |-> Mul(tp[k], At(vol, k - 1))]
    IN  [k \in 1..Len(c) |->
            LET i == k - 1
                n == LoopCount(length)
                posMF == SumSeq([j \in 1..n |->
                            IF Gt(At(tp, i - (j - 1)), At(tp, i - (j - 1) - 1))
                            THEN At(mf, i - (j - 1)) ELSE R(0)])
                negMF == SumSeq([j \in 1..n |->
                            IF Gt(At(tp, i - (j - 1)), At(tp, i - (j - 1) - 1))
                            THEN R(0) ELSE At(mf, i - (j - 1))])
            IN  IF Lt(R(i), length) THEN NaN
                ELSE IF Eq(negMF, R(0)) THEN R(100)
                ELSE Sub(R(100), Div(R(100), Add(R(1), Div(posMF, negMF))))]

wpr(h, l, c, length) ==
    LET hh == highest(h, length)
        ll == lowest(l, length)
    IN  [k \in 1..Len(c) |->
            LET range == Sub(At(hh, k - 1), At(ll, k - 1))
            IN  IF Eq(range, R(0)) THEN R(-50)
                ELSE Mul(Div(Sub(At(hh, k - 1), c[k]), range), R(-100))]

tsi(source, shortLength, longLength) ==
    LET changes == <<R(0)>> \o [k \in From1(Len(source)) |->
                                   Sub(At(source, k), At(source, k - 1))]
        absChanges == [k \in 1..Len(changes) |-> mathAbs(changes[k])]
        smoothedChange == ema(ema(changes, longLength), shortLength)
        smoothedAbs == ema(ema(absChanges, longLength), shortLength)
    IN  [k \in 1..Len(smoothedChange) |->
            IF Eq(At(smoothedAbs, k - 1), R(0)) THEN R(0)
            ELSE Mul(Div(smoothedChange[k], At(smoothedAbs, k - 1)), R(100))]

roc(source, length) ==
    [k \in 1..Len(source) |->
        LET i == k - 1
            past == AtQ(source, Sub(R(i), length))
        IN  IF Lt(R(i), length) \/ Eq(past, R(0)) THEN NaN
            ELSE Mul(Div(Sub(source[k], past), past), R(100))]

mom(source, length) ==
    [k \in 1..Len(source) |->
        IF Lt(R(k - 1), length) THEN NaN
        ELSE Sub(source[k], AtQ(source, Sub(R(k - 1), length)))]

-----------------------------------------------------------------------------
(* VOLATILITY INDICATORS *)

tr(h, l, c) ==
    <<Sub(At(h, 0), At(l, 0))>> \o
    [i \in From1(Len(h)) |->
        mathMax3(Sub(At(h, i), At(l, i)),
                 mathAbs(Sub(At(h, i), At(c, i - 1))),
                 mathAbs(Sub(At(l, i), At(c, i - 1))))]

atr(h, l, c, length) == rma(tr(h, l, c), length)

stdev(source, length) ==
    LET avg == sma(source, length)
    IN  [k \in 1..Len(source) |->
            LET i == k - 1
                w == Window(source, i, length)
            IN  IF Lt(R(i), Sub(length, R(1))) THEN NaN
                ELSE mathSqrt(Div(SumSeq([j \in 1..Len(w) |->
                                             Mul(Sub(w[j], At(avg, i)), Sub(w[j], At(avg, i)))]),
                                  length))]

bb(source, length, mult) ==
    LET basis == sma(source, length)
        stdDev == stdev(source, length)
        upper == [k \in 1..Len(basis) |-> Add(basis[k], Mul(mult, At(stdDev, k - 1)))]
        lower == [k \in 1..Len(basis) |-> Sub(basis[k], Mul(mult, At(stdDev, k - 1)))]
    IN  <<basis, upper, lower>>

bbw(source, length, mult) ==
    LET b == bb(source, length, mult)
    IN  [k \in 1..Len(b[2]) |->
            IF Eq(At(b[1], k - 1), R(0)) THEN R(0)
            ELSE Div(Sub(b[2][k], At(b[3], k - 1)), At(b[1], k - 1))]

kc(h, l, c, length, mult, atrLength) ==
    LET basis == ema(c, length)
        atrVal == atr(h, l, c, atrLength)
        upper == [k \in 1..Len(basis) |-> Add(basis[k], Mul(mult, At(atrVal, k - 1)))]
        lower == [k \in 1..Len(basis) |-> Sub(basis[k], Mul(mult, At(atrVal, k - 1)))]
    IN  <<basis, upper, lower>>

kcw(h, l, c, length, mult, atrLength) ==
    LET b == kc(h, l, c, length, mult, atrLength)
    IN  [k \in 1..Len(b[2]) |->
            IF Eq(At(b[1], k - 1), R(0)) THEN R(0)
            ELSE Div(Sub(b[2][k], At(b[3], k - 1)), At(b[1], k - 1))]

-----------------------------------------------------------------------------
(* TREND INDICATORS *)

\* supertrend with prevST starting at 0 instead of NaN
supertrendInit_seeded ==
    [i |-> 0, prevLower |-> NaN, prevUpper |-> NaN, prevST |-> R(0),
     result |-> <<>>, directions |-> <<>>]

\* supertrend: the locals before the first iteration of the loop over the bars
supertrendInit ==
    [i |-> 0, prevLower |-> NaN, prevUpper |-> NaN, prevST |-> NaN,
     result |-> <<>>, directions |-> <<>>]

\* supertrend without the carried bands: both bands are the new candidates
supertrendBar_nocarry(s, h, l, c, factor, atrVal) ==
    LET i == s.i
        hl2 == Div(Add(At(h, i), At(l, i)), R(2))
        upper == Add(hl2, Mul(factor, At(atrVal, i)))
        lower == Sub(hl2, Mul(factor, At(atrVal, i)))
        dir == IF isNaN(s.prevST) THEN 1
               ELSE IF Eq(s.prevST, s.prevUpper)
                    THEN (IF Gt(At(c, i), upper) THEN -1 ELSE 1)
                    ELSE (IF Lt(At(c, i), lower) THEN 1 ELSE -1)
        stv == IF dir = -1 THEN lower ELSE upper
    IN  IF isNaN(At(atrVal, i))
        THEN [s EXCEPT !.i = i + 1,
                       !.result = Append(@, NaN),
                       !.directions = Append(@, 1)]
        ELSE [i |-> i + 1, prevLower |-> lower, prevUpper |-> upper, prevST |-> stv,
              result |-> Append(s.result, stv),
              directions |-> Append(s.directions, dir)]

\* supertrend: one iteration of the loop over the bars, on the locals s (bar s.i)
supertrendBar(s, h, l, c, factor, atrVal) ==
    LET i == s.i
        hl2 == Div(Add(At(h, i), At(l, i)), R(2))
        upper0 == Add(hl2, Mul(factor, At(atrVal, i)))
        lower0 == Sub(hl2, Mul(factor, At(atrVal, i)))
        both == ~isNaN(s.prevLower) /\ ~isNaN(s.prevUpper)
        lower == IF both
                 THEN (IF Gt(lower0, s.prevLower) \/ Lt(At(c, i - 1), s.prevLower)
                       THEN lower0 ELSE s.prevLower)
                 ELSE lower0
        upper == IF both
                 THEN (IF Lt(upper0, s.prevUpper) \/ Gt(At(c, i - 1), s.prevUpper)
                       THEN upper0 ELSE s.prevUpper)
                 ELSE upper0
        dir == IF isNaN(s.prevST) THEN 1
               ELSE IF Eq(s.prevST, s.prevUpper)
                    THEN (IF Gt(At(c, i), upper) THEN -1 ELSE 1)
                    ELSE (IF Lt(At(c, i), lower) THEN 1 ELSE -1)
        stv == IF dir = -1 THEN lower ELSE upper
    IN  IF isNaN(At(atrVal, i))
        THEN [s EXCEPT !.i = i + 1,
                       !.result = Append(@, NaN),
                       !.directions = Append(@, 1)]
        ELSE [i |-> i + 1, prevLower |-> lower, prevUpper |-> upper, prevST |-> stv,
              result |-> Append(s.result, stv),
              directions |-> Append(s.directions, dir)]

RECURSIVE supertrendLoop(_, _, _, _, _, _)
supertrendLoop(s, h, l, c, factor, atrVal) ==
    IF s.i < Len(h)
    THEN supertrendLoop(supertrendBar(s, h, l, c, factor, atrVal), h, l, c, factor, atrVal)
    ELSE s

supertrend(h, l, c, factor, atrPeriod) ==
    LET s == supertrendLoop(supertrendInit, h, l, c, factor, atr(h, l, c, atrPeriod))
    IN  <<s.result, s.directions>>

\* sar: the locals before the first iteration of the loop over the bars
sarInit(l, start) ==
    [i |-> 0, af |-> start, ep |-> At(l, 0), isLong |-> TRUE, sarVal |-> At(l, 0),
     result |-> <<>>]

\* sar without the cap of the acceleration factor
sarBar_nocap(s, h, l, start, inc, maxAF) ==
    LET i == s.i
        sar0 == Add(s.sarVal, Mul(s.af, Sub(s.ep, s.sarVal)))
        sarL == mathMin3(sar0, At(l, i - 1), IF i > 1 THEN At(l, i - 2) ELSE At(l, i - 1))
        sarS == mathMax3(sar0, At(h, i - 1), IF i > 1 THEN At(h, i - 2) ELSE At(h, i - 1))
        t == IF s.isLong
             THEN IF Lt(At(l, i), sarL)
                  THEN [isLong |-> FALSE, sarVal |-> s.ep, ep |-> At(l, i), af |-> start]
                  ELSE IF Gt(At(h, i), s.ep)
                       THEN [isLong |-> TRUE, sarVal |-> sarL, ep |-> At(h, i),
                             af |-> Add(s.af, inc)]
                       ELSE [isLong |-> TRUE, sarVal |-> sarL, ep |-> s.ep, af |-> s.af]
             ELSE IF Gt(At(h, i), sarS)
                  THEN [isLong |-> TRUE, sarVal |-> s.ep, ep |-> At(h, i), af |-> start]
                  ELSE IF Lt(At(l, i), s.ep)
                       THEN [isLong |-> FALSE, sarVal |-> sarS, ep |-> At(l, i),
                             af |-> Add(s.af, inc)]
                       ELSE [isLong |-> FALSE, sarVal |-> sarS, ep |-> s.ep, af |-> s.af]
    IN  IF i = 0
        THEN [s EXCEPT !.i = 1, !.result = Append(@, s.sarVal)]
        ELSE [i |-> i + 1, af |-> t.af, ep |-> t.ep, isLong |-> t.isLong,
              sarVal |-> t.sarVal, result |-> Append(s.result, t.sarVal)]

\* sar: one iteration of the loop over the bars, on the locals s (bar s.i)
sarBar(s, h, l, start, inc, maxAF) ==
    LET i == s.i
        sar0 == Add(s.sarVal, Mul(s.af, Sub(s.ep, s.sarVal)))
        sarL == mathMin3(sar0, At(l, i - 1), IF i > 1 THEN At(l, i - 2) ELSE At(l, i - 1))
        sarS == mathMax3(sar0, At(h, i - 1), IF i > 1 THEN At(h, i - 2) ELSE At(h, i - 1))
        t == IF s.isLong
             THEN IF Lt(At(l, i), sarL)
                  THEN [isLong |-> FALSE, sarVal |-> s.ep, ep |-> At(l, i), af |-> start]
                  ELSE IF Gt(At(h, i), s.ep)
                       THEN [isLong |-> TRUE, sarVal |-> sarL, ep |-> At(h, i),
                             af |-> mathMin2(Add(s.af, inc), maxAF)]
                       ELSE [isLong |-> TRUE, sarVal |-> sarL, ep |-> s.ep, af |-> s.af]
             ELSE IF Gt(At(h, i), sarS)
                  THEN [isLong |-> TRUE, sarVal |-> s.ep, ep |-> At(h, i), af |-> start]
                  ELSE IF Lt(At(l, i), s.ep)
                       THEN [isLong |-> FALSE, sarVal |-> sarS, ep |-> At(l, i),
                             af |-> mathMin2(Add(s.af, inc), maxAF)]
                       ELSE [isLong |-> FALSE, sarVal |-> sarS, ep |-> s.ep, af |-> s.af]
    IN  IF i = 0
        THEN [s EXCEPT !.i = 1, !.result = Append(@, s.sarVal)]
        ELSE [i |-> i + 1, af |-> t.af, ep |-> t.ep, isLong |-> t.isLong,
              sarVal |-> t.sarVal, result |-> Append(s.result, t.sarVal)]

RECURSIVE sarLoop(_, _, _, _, _, _)
sarLoop(s, h, l, start, inc, maxAF) ==
    IF s.i < Len(h)
    THEN sarLoop(sarBar(s, h, l, start, inc, maxAF), h, l, start, inc, maxAF)
    ELSE s

sar(h, l, start, inc, maxAF) == sarLoop(sarInit(l, start), h, l, start, inc, maxAF).result

\* +DM without the comparison of the two moves
dmiPlusDM_nocompare(h, l) ==
    <<R(0)>> \o
    [i \in From1(Len(h)) |->
        LET upMove == Sub(At(h, i), At(h, i - 1))
            downMove == Sub(At(l, i - 1), At(l, i))
        IN  IF Gt(upMove, R(0)) THEN upMove ELSE R(0)]

dmiPlusDM(h, l) ==
    <<R(0)>> \o
    [i \in From1(Len(h)) |->
        LET upMove == Sub(At(h, i), At(h, i - 1))
            downMove == Sub(At(l, i - 1), At(l, i))
        IN  IF Gt(upMove, downMove) /\ Gt(upMove, R(0)) THEN upMove ELSE R(0)]

dmiMinusDM(h, l) ==
    <<R(0)>> \o
    [i \in From1(Len(h)) |->
        LET upMove == Sub(At(h, i), At(h, i - 1))
            downMove == Sub(At(l, i - 1), At(l, i))
        IN  IF Gt(downMove, upMove) /\ Gt(downMove, R(0)) THEN downMove ELSE R(0)]

dmi(h, l, c, length) ==
    LET smoothTR == rma(tr(h, l, c), length)
        smoothPlusDM == rma(dmiPlusDM(h, l), length)
        smoothMinusDM == rma(dmiMinusDM(h, l), length)
        plusDI == [k \in 1..Len(smoothPlusDM) |->
                      IF Eq(At(smoothTR, k - 1), R(0)) THEN R(0)
                      ELSE Mul(Div(smoothPlusDM[k], At(smoothTR, k - 1)), R(100))]
        minusDI == [k \in 1..Len(smoothMinusDM) |->
                       IF Eq(At(smoothTR, k - 1), R(0)) THEN R(0)
                       ELSE Mul(Div(smoothMinusDM[k], At(smoothTR, k - 1)), R(100))]
        dx == [k \in 1..Len(plusDI) |->
                  LET sum == Add(plusDI[k], At(minusDI, k - 1))
                  IN  IF Eq(sum, R(0)) THEN R(0)
                      ELSE Mul(Div(mathAbs(Sub(plusDI[k], At(minusDI, k - 1))), sum), R(100))]
        adx == rma(dx, length)
    IN  <<plusDI, minusDI, adx>>

donchian(h, l, len) ==
    LET hh == highest(h, len)
        ll == lowest(l, len)
    IN  [k \in 1..Len(hh) |-> Div(Add(hh[k], At(ll, k - 1)), R(2))]

\* [...close.slice(displacement), ...Array(displacement).fill(NaN)], displacement >= 0
ichimokuChikou(c, displacement) ==
    SubSeq(c, displacement + 1, Len(c)) \o [k \in 1..displacement |-> NaN]

\* <<tenkan, kijun, senkouA, senkouB, chikou>>
ichimoku(h, l, c, conversionPeriods, basePeriods, laggingSpan2Periods, displacement) ==
    LET tenkan == donchian(h, l, conversionPeriods)
        kijun == donchian(h, l, basePeriods)
        senkouA == [k \in 1..Len(tenkan) |-> Div(Add(tenkan[k], At(kijun, k - 1)), R(2))]
        senkouB == donchian(h, l, laggingSpan2Periods)
        chikou == ichimokuChikou(c, displacement)
    IN  <<tenkan, kijun, senkouA, senkouB, chikou>>

-----------------------------------------------------------------------------
(* UTILITY FUNCTIONS *)

\* crossover with a strict comparison on the previous bar
crossover_strict(s1, s2) ==
    [k \in 1..Len(s1) |->
        IF k - 1 = 0 THEN FALSE
        ELSE Gt(s1[k], At(s2, k - 1)) /\ Lt(At(s1, k - 2), At(s2, k - 2))]

crossover(s1, s2) ==
    [k \in 1..Len(s1) |->
        IF k - 1 = 0 THEN FALSE
        ELSE Gt(s1[k], At(s2, k - 1)) /\ Le(At(s1, k - 2), At(s2, k - 2))]

crossunder(s1, s2) ==
    [k \in 1..Len(s1) |->
        IF k - 1 = 0 THEN FALSE
        ELSE Lt(s1[k], At(s2, k - 1)) /\ Ge(At(s1, k - 2), At(s2, k - 2))]

cross(s1, s2) ==
    LET over == crossover(s1, s2)
        under == crossunder(s1, s2)
    IN  [k \in 1..Len(over) |-> over[k] \/ under[k]]

\* linreg evaluated one position past the window
linreg_past(source, length, offset) ==
    [k \in 1..Len(source) |->
        LET i == k - 1
            n == LoopCount(length)
            y == [j \in 1..n |-> AtQ(source, Sub(R(i), Sub(Sub(length, R(1)), R(j - 1))))]
            sumX == SumSeq([j \in 1..n |-> R(j - 1)])
            sumY == SumSeq(y)
            sumXY == SumSeq([j \in 1..n |-> Mul(R(j - 1), y[j])])
            sumX2 == SumSeq([j \in 1..n |-> R((j - 1) * (j - 1))])
            slope == Div(Sub(Mul(length, sumXY), Mul(sumX, sumY)),
                         Sub(Mul(length, sumX2), Mul(sumX, sumX)))
            intercept == Div(Sub(sumY, Mul(slope, sumX)), length)
        IN  IF Lt(R(i), Sub(length, R(1))) THEN NaN
            ELSE Add(intercept, Mul(slope, Sub(length, offset)))]

linreg(source, length, offset) ==
    [k \in 1..Len(source) |->
        LET i == k - 1
            n == LoopCount(length)
            y == [j \in 1..n |-> AtQ(source, Sub(R(i), Sub(Sub(length, R(1)), R(j - 1))))]
            sumX == SumSeq([j \in 1..n |-> R(j - 1)])
            sumY == SumSeq(y)
            sumXY == SumSeq([j \in 1..n |-> Mul(R(j - 1), y[j])])
            sumX2 == SumSeq([j \in 1..n |-> R((j - 1) * (j - 1))])
            slope == Div(Sub(Mul(length, sumXY), Mul(sumX, sumY)),
                         Sub(Mul(length, sumX2), Mul(sumX, sumX)))
            intercept == Div(Sub(sumY, Mul(slope, sumX)), length)
        IN  IF Lt(R(i), Sub(length, R(1))) THEN NaN
            ELSE Add(intercept, Mul(slope, Sub(Sub(length, R(1)), offset)))]

correlation(s1, s2, length) ==
    [k \in 1..Len(s1) |->
        LET i == k - 1
            w1 == Window(s1, i, length)
            w2 == Window(s2, i, length)
            n == R(Len(w1))
            mean1 == Div(SumSeq(w1), n)
            mean2 == Div(SumSeq(w2), n)
            num == SumSeq([j \in 1..Len(w1) |-> Mul(Sub(w1[j], mean1), Sub(w2[j], mean2))])
            den1 == SumSeq([j \in 1..Len(w1) |-> Mul(Sub(w1[j], mean1), Sub(w1[j], mean1))])
            den2 == SumSeq([j \in 1..Len(w1) |-> Mul(Sub(w2[j], mean2), Sub(w2[j], mean2))])
            den == mathSqrt(Mul(den1, den2))
        IN  IF Lt(R(i), Sub(length, R(1))) THEN NaN
            ELSE IF Eq(den, R(0)) THEN NaN ELSE Div(num, den)]

\* pivothigh that lets a tie pass
isPivotHigh_ties(source, i, leftBars, rightBars) ==
    /\ \A j \in 1..leftBars : ~Gt(At(source, i - j), At(source, i))
    /\ \A j \in 1..rightBars : ~Gt(At(source, i + j), At(source, i))

\* pivothigh / pivotlow: whether candidate i passes both comparison loops
isPivotHigh(source, i, leftBars, rightBars) ==
    /\ \A j \in 1..leftBars : ~Ge(At(source, i - j), At(source, i))
    /\ \A j \in 1..rightBars : ~Ge(At(source, i + j), At(source, i))

isPivotLow(source, i, leftBars, rightBars) ==
    /\ \A j \in 1..leftBars : ~Le(At(source, i - j), At(source, i))
    /\ \A j \in 1..rightBars : ~Le(At(source, i + j), At(source, i))

pivothigh(source, leftBars, rightBars) ==
    [k \in 1..Len(source) |->
        LET i == (k - 1) - rightBars
        IN  IF i >= leftBars /\ i < Len(source) - rightBars
               /\ isPivotHigh(source, i, leftBars, rightBars)
            THEN At(source, i) ELSE NaN]

pivotlow(source, leftBars, rightBars) ==
    [k \in 1..Len(source) |->
        LET i == (k - 1) - rightBars
        IN  IF i >= leftBars /\ i < Len(source) - rightBars
               /\ isPivotLow(source, i, leftBars, rightBars)
            THEN At(source, i) ELSE NaN]

\* highestbars / lowestbars: the loop `for (j = 1; j < length; j++)` over the
\* window of bar i, from iteration j on, with the locals maxIdx and max
\* (minIdx and min when up is FALSE)
RECURSIVE barsScan(_, _, _, _, _, _, _)
barsScan(source, i, length, j, idx, best, up) ==
    IF Lt(R(j), length)
    THEN IF (IF up THEN Gt(At(source, i - j), best) ELSE Lt(At(source, i - j), best))
         THEN barsScan(source, i, length, j + 1, j, At(source, i - j), up)
         ELSE barsScan(source, i, length, j + 1, idx, best, up)
    ELSE idx

\* highestbars that pushes maxIdx instead of -maxIdx
highestbars_positive(source, length) ==
    [k \in 1..Len(source) |->
        LET i == k - 1
        IN  IF Lt(R(i), Sub(length, R(1))) THEN NaN
            ELSE R(barsScan(source, i, length, 1, 0, At(source, i), TRUE))]

highestbars(source, length) ==
    [k \in 1..Len(source) |->
        LET i == k - 1
        IN  IF Lt(R(i), Sub(length, R(1))) THEN NaN
            ELSE R(-barsScan(source, i, length, 1, 0, At(source, i), TRUE))]

lowestbars(source, length) ==
    [k \in 1..Len(source) |->
        LET i == k - 1
        IN  IF Lt(R(i), Sub(length, R(1))) THEN NaN
            ELSE R(-barsScan(source, i, length, 1, 0, At(source, i), FALSE))]

-----------------------------------------------------------------------------
(* Inputs *)

MaxBars == 3        \* bars of an input of Spec
MaxPrice == 2       \* prices of Spec are 1..MaxPrice
MaxLength == 4      \* length parameters are 1..MaxLength

RECURSIVE SeqsUpTo(_, _)
SeqsUpTo(S, n) ==
    IF n = 0 THEN {<<>>}
    ELSE LET T == SeqsUpTo(S, n - 1)
         IN  T \cup {Append(t, x) : t \in {u \in T : Len(u) = n - 1}, x \in S}

Prices(m) == {R(v) : v \in 1..m}
Lengths == {R(k) : k \in 1..MaxLength}

\* bars whose finite fields satisfy low <= close <= high
ValidBars(P, V) ==
    {b \in [h : P, l : P, c : P, v : V] :
        /\ (isNaN(b.l) \/ isNaN(b.c) \/ Le(b.l, b.c))
        /\ (isNaN(b.c) \/ isNaN(b.h) \/ Le(b.c, b.h))
        /\ (isNaN(b.l) \/ isNaN(b.h) \/ Le(b.l, b.h))}

\* no invocation of supertrend (of sar) is running
NoLocals == [i |-> -1]

\* the keys of getCached and the ids of the drawings
Keys == {"k1", "k2"}
Ids == {"a", "b"}

\* new Map(): a map over the keys K holds <<>> (no entry) or <<v>> at a key
NewMap(K) == [k \in K |-> <<>>]

\* new BarData(candles): the fields after the constructor
BarData(candles) == [candles |-> candles, version |-> 0, cache |-> NewMap(Keys)]

\* new ChartScriptDrawingsModel(): no drawing; changed counts the emissions
\* of the subject `changed`
ChartScriptDrawingsModel == [drawings |-> NewMap(Ids), changed |-> 0]

\* no call on bd or dm was made
NoHistory == [calls |-> 0]

InitBars(B) ==
    /\ \E bs \in B :
        /\ high = [k \in 1..Len(bs) |-> bs[k].h]
        /\ low = [k \in 1..Len(bs) |-> bs[k].l]
        /\ close = [k \in 1..Len(bs) |-> bs[k].c]
        /\ volume = [k \in 1..Len(bs) |-> bs[k].v]
    /\ fn = ""
    /\ arg = <<>>
    /\ out = <<>>
    /\ pc = "idle"
    /\ st = NoLocals
    /\ sr = NoLocals
    /\ bd = BarData(<<>>)
    /\ dm = ChartScriptDrawingsModel
    /\ obs = NoHistory

Init == InitBars(SeqsUpTo(ValidBars(Prices(MaxPrice), Prices(1)), MaxBars))

\* a call on a single source series (passed as close) and a second series
InitSeries(S1, S2) ==
    /\ close \in S1
    /\ volume \in {v \in S2 : Len(v) = Len(close)}
    /\ high = close
    /\ low = close
    /\ fn = ""
    /\ arg = <<>>
    /\ out = <<>>
    /\ pc = "idle"
    /\ st = NoLocals
    /\ sr = NoLocals
    /\ bd = BarData(<<>>)
    /\ dm = ChartScriptDrawingsModel
    /\ obs = NoHistory

-----------------------------------------------------------------------------
(* Calls: one action per function of ta.ts *)

Call(name, a, result) ==
    /\ pc = "idle"
    /\ fn' = name
    /\ arg' = a
    /\ out' = result
    /\ pc' = "returned"
    /\ UNCHANGED <<high, low, close, volume, st, sr, bd, dm, obs>>

Call_sma(length) == Call("sma", <<length>>, <<sma(close, length)>>)
Call_ema(length) == Call("ema", <<length>>, <<ema(close, length)>>)
Call_rma(length) == Call("rma", <<length>>, <<rma(close, length)>>)
Call_wma(length) == Call("wma", <<length>>, <<wma(close, length)>>)
Call_swma == Call("swma", <<>>, <<swma(close)>>)
Call_vwma(length) == Call("vwma", <<length>>, <<vwma(close, length, volume)>>)
Call_hma(length) == Call("hma", <<length>>, <<hma(close, length)>>)
\* offset and sigma take their default values 0.85 and 6
Call_alma(length) == Call("alma", <<length>>, <<alma(close, length, Q(85, 100), R(6))>>)
Call_rsi(length) == Call("rsi", <<length>>, <<rsi(close, length)>>)
Call_macd(fastLength, slowLength, signalLength) ==
    Call("macd", <<fastLength, slowLength, signalLength>>,
         macd(close, fastLength, slowLength, signalLength))
Call_atr(length) == Call("atr", <<length>>, <<atr(high, low, close, length)>>)
Call_supertrend(factor, atrPeriod) ==
    Call("supertrend", <<factor, atrPeriod>>, supertrend(high, low, close, factor, atrPeriod))
Call_sar(start, inc, maxAF) ==
    Call("sar", <<start, inc, maxAF>>, <<sar(high, low, start, inc, maxAF)>>)
Call_dmi(length) == Call("dmi", <<length>>, dmi(high, low, close, length))

\* the two series s1, s2 are close and volume
Call_crossover == Call("crossover", <<>>, <<crossover(close, volume)>>)
Call_crossunder == Call("crossunder", <<>>, <<crossunder(close, volume)>>)
\* out holds the locals over and under of cross, then what it returns
Call_cross ==
    Call("cross", <<>>, <<crossover(close, volume), crossunder(close, volume),
                          cross(close, volume)>>)

Call_stoch(kPeriod, kSmooth, dSmooth) ==
    Call("stoch", <<kPeriod, kSmooth, dSmooth>>,
         stoch(close, high, low, kPeriod, kSmooth, dSmooth))
Call_cci(length) == Call("cci", <<length>>, <<cci(high, low, close, length)>>)
Call_cmo(length) == Call("cmo", <<length>>, <<cmo(close, length)>>)
Call_mfi(length) == Call("mfi", <<length>>, <<mfi(high, low, close, volume, length)>>)
Call_wpr(length) == Call("wpr", <<length>>, <<wpr(high, low, close, length)>>)
Call_tsi(shortLength, longLength) ==
    Call("tsi", <<shortLength, longLength>>, <<tsi(close, shortLength, longLength)>>)
Call_roc(length) == Call("roc", <<length>>, <<roc(close, length)>>)
Call_mom(length) == Call("mom", <<length>>, <<mom(close, length)>>)
Call_tr == Call("tr", <<>>, <<tr(high, low, close)>>)
\* mult takes its default value 2
Call_bb(length) == Call("bb", <<length>>, bb(close, length, R(2)))
Call_bbw(length) == Call("bbw", <<length>>, <<bbw(close, length, R(2))>>)
Call_kc(length, atrLength) ==
    Call("kc", <<length, atrLength>>, kc(high, low, close, length, R(2), atrLength))
Call_kcw(length, atrLength) ==
    Call("kcw", <<length, atrLength>>, <<kcw(high, low, close, length, R(2), atrLength)>>)
Call_stdev(length) == Call("stdev", <<length>>, <<stdev(close, length)>>)
Call_dev(length) == Call("dev", <<length>>, <<dev(close, length)>>)
Call_variance(length, biased) ==
    Call("variance", <<length, biased>>, <<variance(close, length, biased)>>)
Call_ichimoku(conversionPeriods, basePeriods, laggingSpan2Periods, displacement) ==
    /\ displacement >= 0
    /\ Call("ichimoku",
            <<conversionPeriods, basePeriods, laggingSpan2Periods, displacement>>,
            ichimoku(high, low, close, conversionPeriods, basePeriods,
                     laggingSpan2Periods, displacement))
Call_highest(length) == Call("highest", <<length>>, <<highest(close, length)>>)
Call_lowest(length) == Call("lowest", <<length>>, <<lowest(close, length)>>)
\* offset takes its default value 0
Call_linreg(length) == Call("linreg", <<length>>, <<linreg(close, length, R(0))>>)
Call_linreg_offset(length, offset) ==
    Call("linreg", <<length, offset>>, <<linreg(close, length, offset)>>)
Call_highestbars(length) == Call("highestbars", <<length>>, <<highestbars(close, length)>>)
Call_lowestbars(length) == Call("lowestbars", <<length>>, <<lowestbars(close, length)>>)
Call_correlation(length) ==
    Call("correlation", <<length>>, <<correlation(close, volume, length)>>)
Call_pivothigh(leftBars, rightBars) ==
    Call("pivothigh", <<leftBars, rightBars>>, <<pivothigh(close, leftBars, rightBars)>>)
Call_pivotlow(leftBars, rightBars) ==
    Call("pivotlow", <<leftBars, rightBars>>, <<pivotlow(close, leftBars, rightBars)>>)

\* a few periods for the functions that take more than one
Periods == {R(1), R(2)}

Next ==
    \/ \E length \in Lengths : Call_sma(length)
    \/ \E length \in Lengths : Call_ema(length)
    \/ \E length \in Lengths : Call_rma(length)
    \/ \E length \in Lengths : Call_wma(length)
    \/ Call_swma
    \/ \E length \in Lengths : Call_vwma(length)
    \/ \E length \in Lengths : Call_hma(length)
    \/ \E length \in Lengths : Call_alma(length)
    \/ \E length \in Lengths : Call_rsi(length)
    \/ \E fastLength, slowLength, signalLength \in Periods :
            Call_macd(fastLength, slowLength, signalLength)
    \/ \E kPeriod \in Lengths, kSmooth, dSmooth \in Periods :
            Call_stoch(kPeriod, kSmooth, dSmooth)
    \/ \E length \in Lengths : Call_cci(length)
    \/ \E length \in Lengths : Call_cmo(length)
    \/ \E length \in Lengths : Call_mfi(length)
    \/ \E length \in Lengths : Call_wpr(length)
    \/ \E shortLength, longLength \in Periods : Call_tsi(shortLength, longLength)
    \/ \E length \in Lengths : Call_roc(length)
    \/ \E length \in Lengths : Call_mom(length)
    \/ Call_tr
    \/ \E length \in Lengths : Call_atr(length)
    \/ \E length \in Lengths : Call_bb(length)
    \/ \E length \in Lengths : Call_bbw(length)
    \/ \E length \in Lengths, atrLength \in Periods : Call_kc(length, atrLength)
    \/ \E length \in Lengths, atrLength \in Periods : Call_kcw(length, atrLength)
    \/ \E length \in Lengths : Call_stdev(length)
    \/ \E length \in Lengths : Call_dev(length)
    \/ \E length \in Lengths, biased \in BOOLEAN : Call_variance(length, biased)
    \/ \E factor \in {R(1), R(3)}, atrPeriod \in Lengths : Call_supertrend(factor, atrPeriod)
    \/ Call_sar(Q(2, 100), Q(2, 100), Q(2, 10))
    \/ \E length \in Lengths : Call_dmi(length)
    \/ \E conversionPeriods, basePeriods, laggingSpan2Periods \in Periods :
        \E displacement \in 1..MaxLength :
            Call_ichimoku(conversionPeriods, basePeriods, laggingSpan2Periods, displacement)
    \/ \E length \in Lengths : Call_highest(length)
    \/ \E length \in Lengths : Call_lowest(length)
    \/ Call_crossover
    \/ Call_crossunder
    \/ Call_cross
    \/ \E length \in Lengths : Call_linreg(length)
    \/ \E length \in Lengths : Call_correlation(length)
    \/ \E leftBars, rightBars \in 1..2 : Call_pivothigh(leftBars, rightBars)
    \/ \E leftBars, rightBars \in 1..2 : Call_pivotlow(leftBars, rightBars)

Spec == Init /\ [][Next]_vars

\* C1: every sequence an indicator returns has exactly as many elements as
\* its primary input, for every input length n >= 0 and positive integer
\* parameters.
C1_OutputLength ==
    (pc = "returned") => \A k \in 1..Len(out) : Len(out[k]) = Len(close)

-----------------------------------------------------------------------------
(* rsi on finite sources: C4, C5, C6 *)

MaxBarsRsi == 5
MaxPriceRsi == 3

Ones(n) == [k \in 1..n |-> R(1)]

InitRsi ==
    InitSeries(SeqsUpTo(Prices(MaxPriceRsi), MaxBarsRsi), {Ones(n) : n \in 0..MaxBarsRsi})

NextRsi == \E length \in Lengths : Call_rsi(length)

SpecRsi == InitRsi /\ [][NextRsi]_vars

Returned(name) == pc = "returned" /\ fn = name

\* source[a..b] (0-indexed, inclusive) is monotonically non-decreasing
NonDecreasing(source, a, b) ==
    \A i \in (a + 1)..b : Le(At(source, i - 1), At(source, i))

StrictlyIncreasing(source) ==
    \A i \in 1..(Len(source) - 1) : Lt(At(source, i - 1), At(source, i))

\* C4: every non-NaN element of rsi(source, length), source finite and
\* length >= 1 an integer, lies in the closed interval [0, 100].
C4_RsiBounded ==
    Returned("rsi") =>
        \A k \in 1..Len(out[1]) :
            isNaN(out[1][k]) \/ (Le(R(0), out[1][k]) /\ Le(out[1][k], R(100)))

\* rsi returned a value strictly inside (0, 100): gains and losses both occurred
C4_Witness ==
    /\ Returned("rsi")
    /\ \E k \in 1..Len(out[1]) : Lt(R(0), out[1][k]) /\ Lt(out[1][k], R(100))

\* C5 as claimed: for i >= length, a non-decreasing trailing window
\* source[i-length..i] makes rsi(source, length)[i] = 100, whatever precedes it.
C5_WindowOnly ==
    Returned("rsi") =>
        LET length == mathFloor(arg[1])
        IN  \A i \in length..(Len(close) - 1) :
                NonDecreasing(close, i - length, i) => Eq(At(out[1], i), R(100))

\* C5 amended: for i >= length, rsi(source, length)[i] = 100 when the whole
\* prefix source[0..i] is non-decreasing; the trailing window alone suffices
\* only for length = 1.
C5_PrefixNonDecreasing ==
    Returned("rsi") =>
        LET length == mathFloor(arg[1])
        IN  \A i \in length..(Len(close) - 1) :
                (NonDecreasing(close, 0, i)
                    \/ (length = 1 /\ NonDecreasing(close, i - 1, i)))
                => Eq(At(out[1], i), R(100))

\* rsi with length >= 2 returned 100 past the warm-up on a non-decreasing
\* prefix that holds both a rise and a flat step
C5_Witness ==
    /\ Returned("rsi")
    /\ mathFloor(arg[1]) >= 2
    /\ \E i \in mathFloor(arg[1])..(Len(close) - 1) :
        /\ NonDecreasing(close, 0, i)
        /\ \E a \in 1..i : Lt(At(close, a - 1), At(close, a))
        /\ \E a \in 1..i : Eq(At(close, a - 1), At(close, a))
        /\ Eq(At(out[1], i), R(100))

\* C6: rsi is exactly 100 wherever the Wilder-averaged loss is 0, and on a
\* strictly increasing source longer than length it is NaN at 0..length-1 and
\* 100 at every index >= length.
C6_RsiZeroLoss ==
    Returned("rsi") =>
        LET length == mathFloor(arg[1])
            avgLosses == rma(rsiLosses(close), arg[1])
        IN  /\ \A i \in 0..(Len(avgLosses) - 1) :
                Eq(At(avgLosses, i), R(0)) => out[1][i + 2] = R(100)
            /\ (StrictlyIncreasing(close) /\ Len(close) > length) =>
                    \A i \in 0..(Len(close) - 1) :
                        IF i < length THEN isNaN(At(out[1], i))
                        ELSE At(out[1], i) = R(100)

\* rsi returned for a strictly increasing source longer than length >= 2
C6_Witness ==
    /\ Returned("rsi")
    /\ mathFloor(arg[1]) >= 2
    /\ StrictlyIncreasing(close)
    /\ Len(close) > mathFloor(arg[1])
    /\ out[1][Len(close)] = R(100)

-----------------------------------------------------------------------------
(* crossover / crossunder: C10 *)

MaxBarsCross == 3
CrossValues == {NaN, R(1), R(2), R(3)}

InitCross ==
    InitSeries(SeqsUpTo(CrossValues, MaxBarsCross), SeqsUpTo(CrossValues, MaxBarsCross))

NextCross ==
    \/ Call_crossover
    \/ Call_crossunder
    \/ Call_cross

SpecCross == InitCross /\ [][NextCross]_vars

\* C10: crossover(s1, s2)[i] is true iff i >= 1, s1[i-1] <= s2[i-1] and
\* s1[i] > s2[i]; crossunder(s1, s2)[i] is true iff i >= 1, s1[i-1] >= s2[i-1]
\* and s1[i] < s2[i]; the two are never both true at an index and both are
\* false at index 0.
C10_Cross ==
    /\ Returned("crossover") =>
            /\ Len(out[1]) = Len(close)
            /\ \A i \in 0..(Len(close) - 1) :
                    out[1][i + 1] <=>
                        (i >= 1 /\ Le(close[i], volume[i]) /\ Gt(close[i + 1], volume[i + 1]))
    /\ Returned("crossunder") =>
            /\ Len(out[1]) = Len(close)
            /\ \A i \in 0..(Len(close) - 1) :
                    out[1][i + 1] <=>
                        (i >= 1 /\ Ge(close[i], volume[i]) /\ Lt(close[i + 1], volume[i + 1]))
    /\ Returned("cross") =>
            /\ \A k \in 1..Len(out[1]) : ~(out[1][k] /\ out[2][k])
            /\ Len(out[1]) >= 1 => (~out[1][1] /\ ~out[2][1])

\* the scenario of the claim: crossover([1, 3], [2, 2]) = [false, true]
C10_Witness ==
    /\ Returned("crossover")
    /\ close = <<R(1), R(3)>>
    /\ volume = <<R(2), R(2)>>
    /\ out[1] = <<FALSE, TRUE>>

-----------------------------------------------------------------------------
(* windowed moving averages on finite sources: C2 *)

MaxBarsMA == 5
MaxValueMA == 1     \* source values are -1..MaxValueMA

ValuesMA == {R(v) : v \in -1..MaxValueMA}
\* positive volumes: all 1, or 1, 2, 1, 2, ...
VolumesMA == {Ones(n) : n \in 0..MaxBarsMA} \cup
             {[k \in 1..n |-> R(1 + (k % 2))] : n \in 0..MaxBarsMA}

InitMA == InitSeries(SeqsUpTo(ValuesMA, MaxBarsMA), VolumesMA)

NextMA ==
    \/ \E length \in Lengths : Call_sma(length)
    \/ \E length \in Lengths : Call_wma(length)
    \/ \E length \in Lengths : Call_vwma(length)
    \/ \E length \in Lengths : Call_hma(length)
    \/ \E length \in Lengths : Call_alma(length)
    \/ Call_swma

SpecMA == InitMA /\ [][NextMA]_vars

\* the returned sequence is NaN before index w-1 and finite from index w-1 on
WarmUp(result, w) ==
    \A i \in 0..(Len(result) - 1) :
        IF i < w - 1 THEN isNaN(At(result, i)) ELSE IsFinite(At(result, i))

\* from index w-1 on, the value lies between the least and the greatest of the
\* trailing w values of source (a combination with positive weights)
WithinWindow(result, source, w) ==
    \A i \in (w - 1)..(Len(result) - 1) :
        /\ \E j \in 0..(w - 1) : Le(At(source, i - j), At(result, i))
        /\ \E j \in 0..(w - 1) : Ge(At(source, i - j), At(result, i))

\* C2 as claimed: for sma, wma, vwma (positive volume), hma and alma with
\* window length, and swma with window 4, on finite input: output[i] is NaN
\* for i < length-1 and defined for i >= length-1.
C2_WarmUpLengthMinus1 ==
    /\ (pc = "returned" /\ fn \in {"sma", "wma", "vwma", "hma", "alma"}) =>
            WarmUp(out[1], mathFloor(arg[1]))
    /\ Returned("swma") => WarmUp(out[1], 4)

\* C2 amended: as claimed for sma, wma, vwma, alma and swma, whose values also
\* lie within the trailing window; hma(source, length) is NaN at every index
\* when length = 1, and for length >= 2 it is NaN for
\* i < length + floor(sqrt(length)) - 2 and defined from that index on.
C2_WarmUp ==
    /\ (pc = "returned" /\ fn \in {"sma", "wma", "vwma", "alma"}) =>
            /\ WarmUp(out[1], mathFloor(arg[1]))
            /\ WithinWindow(out[1], close, mathFloor(arg[1]))
    /\ Returned("swma") =>
            /\ WarmUp(out[1], 4)
            /\ WithinWindow(out[1], close, 4)
    /\ Returned("hma") =>
            LET length == mathFloor(arg[1])
            IN  IF length = 1 THEN \A k \in 1..Len(out[1]) : isNaN(out[1][k])
                ELSE WarmUp(out[1], length + floorSqrt(arg[1]) - 1)

\* hma with length 4 is still NaN at index 3 = length-1 and defined at index 4
C2_Witness ==
    /\ Returned("hma")
    /\ arg[1] = R(4)
    /\ Len(out[1]) >= 5
    /\ isNaN(out[1][4])
    /\ IsFinite(out[1][5])

-----------------------------------------------------------------------------
(* recursive indicators on inputs that may hold NaN: C3 *)

MaxBarsRec == 3
ValuesRec == {NaN, R(1), R(2)}

InitRec == InitBars(SeqsUpTo(ValidBars(ValuesRec, {R(1)}), MaxBarsRec))

NextRec ==
    \/ \E length \in Lengths : Call_ema(length)
    \/ \E length \in Lengths : Call_rma(length)
    \/ \E length \in Lengths : Call_atr(length)
    \/ \E length \in Lengths : Call_rsi(length)
    \/ Call_macd(R(1), R(2), R(2))
    \/ \E atrPeriod \in {R(1), R(2)} : Call_supertrend(R(1), atrPeriod)
    \/ Call_sar(Q(2, 100), Q(2, 100), Q(2, 10))
    \/ \E length \in Lengths : Call_dmi(length)

SpecRec == InitRec /\ [][NextRec]_vars

\* once an element is finite, no later element is NaN
NoReturnToNaN(result) ==
    \A i \in 1..Len(result) : \A j \in (i + 1)..Len(result) :
        IsFinite(result[i]) => ~isNaN(result[j])

\* C3: for ema, rma, atr, rsi, macd, the supertrend value, sar and the dmi
\* outputs, on inputs whose elements are finite or NaN: if output[i] is finite
\* then output[j] is not NaN for every j > i.
C3_NoReturnToNaN ==
    /\ (pc = "returned" /\ fn \in {"ema", "rma", "atr", "rsi", "macd", "sar", "dmi"}) =>
            \A k \in 1..Len(out) : NoReturnToNaN(out[k])
    /\ Returned("supertrend") => NoReturnToNaN(out[1])

-----------------------------------------------------------------------------
(* supertrend, bar by bar: C7, C8 *)

MaxBarsST == 4
MaxPriceST == 3

\* supertrend is entered: the locals are initialised (lines 474-478)
supertrendEnter(factor, atrPeriod) ==
    /\ pc = "idle"
    /\ fn' = "supertrend"
    /\ arg' = <<factor, atrPeriod>>
    /\ st' = supertrendInit
    /\ pc' = "running"
    /\ UNCHANGED <<high, low, close, volume, out, sr, bd, dm, obs>>

\* one iteration of the loop over the bars
supertrendIterate ==
    /\ pc = "running"
    /\ fn = "supertrend"
    /\ st.i < Len(high)
    /\ st' = supertrendBar(st, high, low, close, arg[1], atr(high, low, close, arg[2]))
    /\ UNCHANGED <<high, low, close, volume, fn, arg, out, pc, sr, bd, dm, obs>>

\* the loop is over: return [result, directions]
supertrendReturn ==
    /\ pc = "running"
    /\ fn = "supertrend"
    /\ st.i >= Len(high)
    /\ out' = <<st.result, st.directions>>
    /\ pc' = "returned"
    /\ UNCHANGED <<high, low, close, volume, fn, arg, st, sr, bd, dm, obs>>

InitST == InitBars(SeqsUpTo(ValidBars(Prices(MaxPriceST), {R(1)}), MaxBarsST))

NextST ==
    \/ \E factor \in {R(0), Q(1, 2), R(1)}, atrPeriod \in {R(1), R(2)} :
            supertrendEnter(factor, atrPeriod)
    \/ supertrendIterate
    \/ supertrendReturn

SpecST == InitST /\ [][NextST]_vars

\* C7: in supertrend, for every bar i whose value and the value at i-1 are
\* both defined, the direction changes from 1 to -1 only if close[i] is
\* strictly above the upper band at bar i and from -1 to 1 only if close[i] is
\* strictly below the lower band at bar i, and it stays what it was at i-1 when
\* close[i] is not beyond the band active at i-1 (bar i is the bar just
\* processed: the bands at bar i are prevUpper and prevLower).
C7_DirectionNeedsCross ==
    (fn = "supertrend" /\ pc = "running" /\ st.i >= 2
        /\ ~isNaN(st.result[st.i]) /\ ~isNaN(st.result[st.i - 1])) =>
        LET i == st.i - 1
            before == st.directions[st.i - 1]
            now == st.directions[st.i]
        IN  /\ (before = 1 /\ now = -1) => Gt(At(close, i), st.prevUpper)
            /\ (before = -1 /\ now = 1) => Lt(At(close, i), st.prevLower)
            /\ (before = 1 /\ ~Gt(At(close, i), st.prevUpper)) => now = 1
            /\ (before = -1 /\ ~Lt(At(close, i), st.prevLower)) => now = -1

\* the number of indices at which a sequence differs from its predecessor
Changes(d) == Cardinality({i \in 2..Len(d) : d[i] # d[i - 1]})

\* C8: on a price series whose high, low and close are each non-decreasing,
\* with factor > 0 and atrPeriod >= 1, if some bar closes above the active
\* upper band (the direction goes from 1 to -1) then the direction sequence
\* changes exactly once over the whole series.
C8_OneFlip ==
    (Returned("supertrend")
        /\ NonDecreasing(high, 0, Len(high) - 1)
        /\ NonDecreasing(low, 0, Len(low) - 1)
        /\ NonDecreasing(close, 0, Len(close) - 1)
        /\ Gt(arg[1], R(0))
        /\ \E i \in 2..Len(out[2]) : out[2][i - 1] = 1 /\ out[2][i] = -1) =>
        Changes(out[2]) = 1

-----------------------------------------------------------------------------
(* sar, one bar at a time *)

MaxBarsSar == 4
MaxPriceSar == 3

\* the declarations before the loop
sarEnter(start, inc, maxAF) ==
    /\ pc = "idle"
    /\ fn' = "sar"
    /\ arg' = <<start, inc, maxAF>>
    /\ sr' = sarInit(low, start)
    /\ pc' = "running"
    /\ UNCHANGED <<high, low, close, volume, out, st, bd, dm, obs>>

\* one iteration of the loop over the bars
sarIterate ==
    /\ pc = "running"
    /\ fn = "sar"
    /\ sr.i < Len(high)
    /\ sr' = sarBar(sr, high, low, arg[1], arg[2], arg[3])
    /\ UNCHANGED <<high, low, close, volume, fn, arg, out, pc, st, bd, dm, obs>>

\* the loop is over: return result
sarReturn ==
    /\ pc = "running"
    /\ fn = "sar"
    /\ sr.i >= Len(high)
    /\ out' = <<sr.result>>
    /\ pc' = "returned"
    /\ UNCHANGED <<high, low, close, volume, fn, arg, st, sr, bd, dm, obs>>

InitSar == InitBars(SeqsUpTo(ValidBars(Prices(MaxPriceSar), {R(1)}), MaxBarsSar))

NextSar ==
    \/ \E start \in {Q(2, 100), Q(1, 2)} : sarEnter(start, Q(2, 100), Q(2, 10))
    \/ sarIterate
    \/ sarReturn

SpecSar == InitSar /\ [][NextSar]_vars

\* C9: in sar, for every bar i >= 1 (the bar just processed), if the flag
\* after bar i is long then sar[i] <= min(low[i-1], low[i-2]) (only low[i-1]
\* when i = 1), and if it is short then sar[i] >= max(high[i-1], high[i-2])
\* (only high[i-1] when i = 1), flip bars and the first flip included.
C9_SarClamped ==
    (fn = "sar" /\ pc = "running" /\ sr.i >= 2) =>
        LET i == sr.i - 1
            i2 == IF i > 1 THEN i - 2 ELSE i - 1
        IN  IF sr.isLong
            THEN Le(sr.sarVal, mathMin2(At(low, i - 1), At(low, i2)))
            ELSE Ge(sr.sarVal, mathMax2(At(high, i - 1), At(high, i2)))

-----------------------------------------------------------------------------
(* sma on finite sources: C11 *)

MaxBarsSma == 5
MaxValueSma == 5    \* source values are 1..MaxValueSma

InitSma ==
    InitSeries(SeqsUpTo(Prices(MaxValueSma), MaxBarsSma), {Ones(n) : n \in 0..MaxBarsSma})

NextSma == \E length \in Lengths : Call_sma(length)

SpecSma == InitSma /\ [][NextSma]_vars

\* source[a] + ... + source[b], added from the oldest element on
RECURSIVE SumRange(_, _, _)
SumRange(source, a, b) ==
    IF a > b THEN R(0) ELSE Add(At(source, a), SumRange(source, a + 1, b))

\* C11: for a finite source and an integer length >= 1, sma(source, length)[i]
\* is NaN for i < length-1 and is the arithmetic mean of
\* source[i-length+1..i] for i >= length-1; sma([1,2,3,4,5], 3) is
\* [NaN, NaN, 2, 3, 4].
C11_SmaMean ==
    Returned("sma") =>
        LET length == arg[1][1]
        IN  /\ Len(out[1]) = Len(close)
            /\ \A i \in 0..(Len(close) - 1) :
                IF i < length - 1 THEN isNaN(At(out[1], i))
                ELSE /\ IsFinite(At(out[1], i))
                     /\ Eq(Mul(At(out[1], i), R(length)),
                           SumRange(close, i - length + 1, i))
            /\ (close = <<R(1), R(2), R(3), R(4), R(5)>> /\ length = 3) =>
                    out[1] = <<NaN, NaN, R(2), R(3), R(4)>>

C11_Witness ==
    /\ Returned("sma")
    /\ close = <<R(1), R(2), R(3), R(4), R(5)>>
    /\ arg[1] = R(3)
    /\ out[1][3] = R(2)

-----------------------------------------------------------------------------
(* ema on finite sources: C12 *)

MaxBarsEma == 4
MaxValueEma == 3    \* source values are 10, 20, ..., 10 * MaxValueEma

ValuesEma == {R(10 * v) : v \in 1..MaxValueEma}

InitEma == InitSeries(SeqsUpTo(ValuesEma, MaxBarsEma), {Ones(n) : n \in 0..MaxBarsEma})

NextEma == \E length \in Lengths : Call_ema(length)

SpecEma == InitEma /\ [][NextEma]_vars

\* C12: for a non-empty finite source and an integer length >= 1,
\* ema(source, length)[0] = source[0] and, for i >= 1,
\* ema[i] = a * source[i] + (1 - a) * ema[i-1] with a = 2 / (length + 1);
\* ema([10,20,30], 2) is [10, 50/3, 230/9].
C12_EmaRecurrence ==
    (Returned("ema") /\ Len(close) > 0) =>
        LET a == Div(R(2), Add(arg[1], R(1)))
        IN  /\ Len(out[1]) = Len(close)
            /\ Eq(At(out[1], 0), At(close, 0))
            /\ \A i \in 1..(Len(close) - 1) :
                Eq(At(out[1], i),
                   Add(Mul(a, At(close, i)), Mul(Sub(R(1), a), At(out[1], i - 1))))
            /\ (close = <<R(10), R(20), R(30)>> /\ arg[1] = R(2)) =>
                    out[1] = <<R(10), Q(50, 3), Q(230, 9)>>

C12_Witness ==
    /\ Returned("ema")
    /\ close = <<R(10), R(20), R(30)>>
    /\ arg[1] = R(2)
    /\ out[1][3] = Q(230, 9)

-----------------------------------------------------------------------------
(* highest and lowest on sources that may hold NaN: C13 *)

MaxBarsExt == 5
MaxValueExt == 5    \* source values are NaN and 1, 3, ..., 2 * MaxValueExt - 1

ValuesExt == {NaN} \cup {R(2 * v - 1) : v \in 1..MaxValueExt}

InitExt == InitSeries(SeqsUpTo(ValuesExt, MaxBarsExt), {Ones(n) : n \in 0..MaxBarsExt})

NextExt ==
    \/ \E length \in Lengths : Call_highest(length)
    \/ \E length \in Lengths : Call_lowest(length)

SpecExt == InitExt /\ [][NextExt]_vars

\* the non-NaN values of source[i-length+1..i]
WindowValues(source, i, length) ==
    {At(source, j) : j \in {jj \in (i - length + 1)..i : ~isNaN(At(source, jj))}}

\* C13: for a source of finite or NaN elements and an integer length >= 1,
\* highest(source, length)[i] (resp. lowest) is NaN for i < length-1; for
\* i >= length-1 it is the maximum (resp. minimum) of the non-NaN values of
\* source[i-length+1..i], and NaN only if that window holds NaN only;
\* highest([5,3,9,1,7], 3) is [NaN, NaN, 9, 9, 9].
C13_RollingExtrema ==
    (pc = "returned" /\ fn \in {"highest", "lowest"}) =>
        LET length == arg[1][1]
        IN  /\ Len(out[1]) = Len(close)
            /\ \A i \in 0..(Len(close) - 1) :
                LET W == WindowValues(close, i, length)
                    v == At(out[1], i)
                IN  IF i < length - 1 \/ W = {} THEN isNaN(v)
                    ELSE /\ v \in W
                         /\ fn = "highest" => \A w \in W : Le(w, v)
                         /\ fn = "lowest" => \A w \in W : Ge(w, v)
            /\ (fn = "highest" /\ close = <<R(5), R(3), R(9), R(1), R(7)>> /\ length = 3) =>
                    out[1] = <<NaN, NaN, R(9), R(9), R(9)>>

\* a window holding a NaN and a value, and a window holding NaN only
C13_Witness ==
    /\ Returned("highest")
    /\ arg[1] = R(2)
    /\ close = <<R(5), NaN, NaN, R(3)>>
    /\ out[1] = <<NaN, R(5), NaN, R(3)>>

-----------------------------------------------------------------------------
(* median, cum and vwma with the arrays they read and write: C14 *)
(* The locals st hold the array objects of the running call: source (and   *)
(* volume) are the caller's arrays, passed by reference; the other fields   *)
(* are the arrays the call allocates; ret names the array it returns.       *)

MaxBarsFrame == 4
MaxValueFrame == 3  \* source values are 1..MaxValueFrame

\* values.sort((a, b) => a - b) on finite values: insertion of x into a sorted w
RECURSIVE sortInsert(_, _)
sortInsert(w, x) ==
    IF Len(w) = 0 THEN <<x>>
    ELSE IF Le(x, Head(w)) THEN <<x>> \o w
    ELSE <<Head(w)>> \o sortInsert(Tail(w), x)

RECURSIVE sortNum(_)
sortNum(w) == IF Len(w) = 0 THEN <<>> ELSE sortInsert(sortNum(Tail(w)), Head(w))

\* result.push(values.length % 2 === 0 ? (values[mid - 1] + values[mid]) / 2 : values[mid])
medianOf(values) ==
    LET mid == Len(values) \div 2
    IN  IF Len(values) % 2 = 0
        THEN Div(Add(At(values, mid - 1), At(values, mid)), R(2))
        ELSE At(values, mid)

medianInit(source) ==
    [i |-> 0, source |-> source, values |-> <<>>, result |-> <<>>, ret |-> ""]

\* median sorting the window of source itself instead of a copy
medianBar_inplace(s, length) ==
    IF Lt(R(s.i), Sub(length, R(1)))
    THEN [s EXCEPT !.i = @ + 1, !.result = Append(@, NaN)]
    ELSE LET n == LoopCount(length)
             values == sortNum(Window(s.source, s.i, length))
         IN  [s EXCEPT !.i = @ + 1, !.values = values,
                       !.source = [k \in 1..Len(s.source) |->
                                      IF k - 1 > s.i - n /\ k - 1 <= s.i
                                      THEN values[k - 1 - (s.i - n)] ELSE s.source[k]],
                       !.result = Append(@, medianOf(values))]

\* median: one iteration of the loop over the bars; values is a new array
\* filled from source and sorted in place
medianBar(s, length) ==
    IF Lt(R(s.i), Sub(length, R(1)))
    THEN [s EXCEPT !.i = @ + 1, !.result = Append(@, NaN)]
    ELSE LET values == sortNum(Window(s.source, s.i, length))
         IN  [s EXCEPT !.i = @ + 1, !.values = values,
                       !.result = Append(@, medianOf(values))]

cumInit(source) ==
    [i |-> 0, source |-> source, sum |-> R(0), result |-> <<>>, ret |-> ""]

\* cum: one call of the callback of source.map, s => sum += s
cumBar(s) ==
    LET sum == Add(s.sum, At(s.source, s.i))
    IN  [s EXCEPT !.i = @ + 1, !.sum = sum, !.result = Append(@, sum)]

\* vwma: the arrays of the call after its four statements
vwmaArrays(source, length, vol) ==
    LET srcVol == [k \in 1..Len(source) |-> Mul(source[k], At(vol, k - 1))]
        num == sma(srcVol, length)
        den == sma(vol, length)
    IN  [i |-> Len(source), source |-> source, volume |-> vol, srcVol |-> srcVol,
         num |-> num, den |-> den, result |-> vwma(source, length, vol), ret |-> ""]

medianEnter(length) ==
    /\ pc = "idle"
    /\ fn' = "median"
    /\ arg' = <<length>>
    /\ st' = medianInit(close)
    /\ pc' = "running"
    /\ UNCHANGED <<high, low, close, volume, out, sr, bd, dm, obs>>

cumEnter ==
    /\ pc = "idle"
    /\ fn' = "cum"
    /\ arg' = <<>>
    /\ st' = cumInit(close)
    /\ pc' = "running"
    /\ UNCHANGED <<high, low, close, volume, out, sr, bd, dm, obs>>

vwmaEnter(length) ==
    /\ pc = "idle"
    /\ fn' = "vwma"
    /\ arg' = <<length>>
    /\ st' = vwmaArrays(close, length, volume)
    /\ pc' = "running"
    /\ UNCHANGED <<high, low, close, volume, out, sr, bd, dm, obs>>

frameIterate ==
    /\ pc = "running"
    /\ fn \in {"median", "cum"}
    /\ st.i < Len(st.source)
    /\ st' = IF fn = "median" THEN medianBar(st, arg[1]) ELSE cumBar(st)
    /\ UNCHANGED <<high, low, close, volume, fn, arg, out, pc, sr, bd, dm, obs>>

\* return result: the caller gets the array result and finds its own arrays
\* as the call left them
frameReturn ==
    /\ pc = "running"
    /\ fn \in {"median", "cum", "vwma"}
    /\ st.i >= Len(st.source)
    /\ out' = <<st.result>>
    /\ st' = [st EXCEPT !.ret = "result"]
    /\ close' = st.source
    /\ volume' = IF fn = "vwma" THEN st.volume ELSE volume
    /\ pc' = "returned"
    /\ UNCHANGED <<high, low, fn, arg, sr, bd, dm, obs>>

\* high and low keep a copy of the source the caller passed
InitFrame ==
    InitSeries(SeqsUpTo(Prices(MaxValueFrame), MaxBarsFrame),
               {[k \in 1..n |-> R(1 + (k % 2))] : n \in 0..MaxBarsFrame})

NextFrame ==
    \/ \E length \in Lengths : medianEnter(length)
    \/ cumEnter
    \/ \E length \in Lengths : vwmaEnter(length)
    \/ frameIterate
    \/ frameReturn

SpecFrame == InitFrame /\ [][NextFrame]_vars

\* C14: no function modifies its input sequences: after a call (median, cum,
\* a composed indicator) every input array has the length and the elements
\* it had before, also while the call runs, and the returned sequence is an
\* array the call allocated, not one of its inputs.
C14_InputsUntouched ==
    /\ close = high
    /\ pc = "running" => (st.source = close /\ (fn = "vwma" => st.volume = volume))
    /\ pc = "returned" => (st.ret \notin {"source", "volume"} /\ out[1] = st.result)

\* median has sorted a window that was not in ascending order
C14_Witness ==
    /\ Returned("median")
    /\ arg[1] = R(3)
    /\ close = <<R(3), R(1), R(2)>>
    /\ st.values = <<R(1), R(2), R(3)>>
    /\ out[1] = <<NaN, NaN, R(2)>>

-----------------------------------------------------------------------------
(* supertrend, sar, dmi and ichimoku with parameters <= 0 or no bars: C15 *)

MaxBarsSM == 2
MaxNegSM == 1      \* parameters are -MaxNegSM..1

\* a call that ends with an exception
Throw(name, a) ==
    /\ pc = "idle"
    /\ fn' = name
    /\ arg' = a
    /\ out' = <<>>
    /\ pc' = "threw"
    /\ UNCHANGED <<high, low, close, volume, st, sr, bd, dm, obs>>

\* Array(displacement) with a negative displacement: RangeError (Invalid array length)
Throw_ichimoku(conversionPeriods, basePeriods, laggingSpan2Periods, displacement) ==
    /\ displacement < 0
    /\ Throw("ichimoku", <<conversionPeriods, basePeriods, laggingSpan2Periods, displacement>>)

ParamsSM == {R(k) : k \in (-MaxNegSM)..1}

InitSM == InitBars(SeqsUpTo(ValidBars(Prices(MaxPrice), {R(1)}), MaxBarsSM))

NextSM ==
    \/ \E atrPeriod \in ParamsSM : Call_supertrend(R(1), atrPeriod)
    \/ Call_sar(Q(2, 100), Q(2, 100), Q(2, 10))
    \/ \E length \in ParamsSM : Call_dmi(length)
    \/ \E conversionPeriods, basePeriods, laggingSpan2Periods \in ParamsSM :
        \E displacement \in (-MaxNegSM)..1 :
            \/ Call_ichimoku(conversionPeriods, basePeriods, laggingSpan2Periods,
                             displacement)
            \/ Throw_ichimoku(conversionPeriods, basePeriods, laggingSpan2Periods,
                              displacement)

SpecSM == InitSM /\ [][NextSM]_vars

\* the length, period and displacement parameters of the call are all <= 0
\* (sar has none)
ParamsNotPositive ==
    CASE fn = "supertrend" -> Le(arg[2], R(0))
      [] fn = "dmi" -> Le(arg[1], R(0))
      [] fn = "ichimoku" -> Le(arg[1], R(0)) /\ Le(arg[2], R(0)) /\ Le(arg[3], R(0))
                            /\ arg[4] <= 0
      [] OTHER -> FALSE

\* the value sequences a call returned (the directions of supertrend are not values)
ValueOutputs == IF fn = "supertrend" THEN <<out[1]>> ELSE out

\* C15: supertrend, sar, dmi and ichimoku never raise an error: called with
\* length, period and displacement parameters <= 0, or with empty input
\* sequences, the call returns normally and every value sequence it returns is
\* empty or NaN at every index.
C15_NoErrorNaNOrEmpty ==
    (pc \in {"returned", "threw"} /\ fn \in {"supertrend", "sar", "dmi", "ichimoku"}
        /\ (ParamsNotPositive \/ Len(close) = 0)) =>
        /\ pc = "returned"
        /\ \A k \in 1..Len(ValueOutputs) :
            \A j \in 1..Len(ValueOutputs[k]) : isNaN(ValueOutputs[k][j])

-----------------------------------------------------------------------------
(* zero denominators in the oscillators, the widths and vwma: C16 *)

MaxBarsDen == 3
MaxPriceDen == 1    \* prices and volumes are 0..MaxPriceDen

ValuesDen == {R(v) : v \in 0..MaxPriceDen}

InitDen == InitBars(SeqsUpTo(ValidBars(ValuesDen, ValuesDen), MaxBarsDen))

NextDen ==
    \/ \E length \in Periods : Call_rsi(length)
    \/ \E kPeriod \in Periods : Call_stoch(kPeriod, R(1), R(1))
    \/ \E length \in Periods : Call_cci(length)
    \/ \E length \in Periods : Call_cmo(length)
    \/ \E length \in Periods : Call_mfi(length)
    \/ \E length \in Periods : Call_wpr(length)
    \/ \E shortLength, longLength \in Periods : Call_tsi(shortLength, longLength)
    \/ \E length \in Periods : Call_roc(length)
    \/ \E length \in Periods : Call_bbw(length)
    \/ \E length, atrLength \in Periods : Call_kcw(length, atrLength)
    \/ \E length \in Periods : Call_vwma(length)

SpecDen == InitDen /\ [][NextDen]_vars

\* the denominator of the returned function at index i (NaN where it has none)
Denominator(i) ==
    LET L == arg[1]
        n == LoopCount(L)
        tp == typicalPrice(high, low, close)
    IN  CASE fn = "rsi" -> IF i >= 1 THEN At(rma(rsiLosses(close), L), i - 1) ELSE NaN
          [] fn \in {"stoch", "wpr"} -> Sub(At(highest(high, L), i), At(lowest(low, L), i))
          [] fn = "cci" -> Mul(Q(15, 1000), At(dev(tp, L), i))
          [] fn = "cmo" ->
                IF i < n THEN NaN
                ELSE SumSeq([j \in 1..n |->
                        mathAbs(Sub(At(close, i - (j - 1)), At(close, i - j)))])
          [] fn = "mfi" ->
                IF i < n THEN NaN
                ELSE SumSeq([j \in 1..n |->
                        IF Gt(At(tp, i - (j - 1)), At(tp, i - j)) THEN R(0)
                        ELSE Mul(At(tp, i - (j - 1)), At(volume, i - (j - 1)))])
          [] fn = "tsi" ->
                LET absChanges == <<R(0)>> \o [k \in From1(Len(close)) |->
                                        mathAbs(Sub(At(close, k), At(close, k - 1)))]
                IN  At(ema(ema(absChanges, arg[2]), arg[1]), i)
          [] fn = "roc" -> IF i < n THEN NaN ELSE At(close, i - n)
          [] fn = "bbw" -> At(sma(close, L), i)
          [] fn = "kcw" -> At(ema(close, L), i)
          [] fn = "vwma" -> At(sma(volume, L), i)
          [] OTHER -> NaN

Sentinels == {R(0), R(50), R(100)}

\* C16: for rsi, stoch, cci, cmo, mfi, wpr, tsi, roc, bbw, kcw and vwma on
\* finite inputs with integer lengths >= 1, at every index past the warm-up
\* where the function's denominator is zero, the output is one of 0, 50, 100
\* and never NaN or an infinity.
C16_Sentinels ==
    (pc = "returned" /\ fn \in {"rsi", "stoch", "cci", "cmo", "mfi", "wpr", "tsi", "roc",
                                "bbw", "kcw", "vwma"}) =>
        \A i \in 0..(Len(out[1]) - 1) :
            Eq(Denominator(i), R(0)) => At(out[1], i) \in Sentinels

-----------------------------------------------------------------------------
(* lengths that are not integers: C17 *)

MaxBarsFrac == 3
MaxValueFrac == 3   \* source values are 1..MaxValueFrac

\* the lengths 3/2 and 5/2
FracLengths == {Q(2 * k + 1, 2) : k \in 1..2}

InitFrac ==
    InitSeries(SeqsUpTo(Prices(MaxValueFrac), MaxBarsFrac), {Ones(n) : n \in 0..MaxBarsFrac})

NextFrac ==
    \/ \E length \in FracLengths : Call_sma(length)
    \/ \E length \in FracLengths : Call_ema(length)
    \/ \E length \in FracLengths : Call_rma(length)
    \/ \E length \in FracLengths : Call_wma(length)
    \/ \E length \in FracLengths : Call_alma(length)
    \/ \E length \in FracLengths : Call_stdev(length)
    \/ \E length \in FracLengths : Call_dev(length)
    \/ \E length \in FracLengths : Call_variance(length, TRUE)
    \/ \E length \in FracLengths : Call_highest(length)
    \/ \E length \in FracLengths : Call_lowest(length)
    \/ \E length \in FracLengths : Call_cmo(length)
    \/ \E length \in FracLengths : Call_roc(length)
    \/ \E length \in FracLengths : Call_mom(length)
    \/ \E length \in FracLengths : Call_linreg(length)

SpecFrac == InitFrac /\ [][NextFrac]_vars

\* the result of the returned function for the length L
ResultFor(L) ==
    CASE fn = "sma" -> sma(close, L)
      [] fn = "ema" -> ema(close, L)
      [] fn = "rma" -> rma(close, L)
      [] fn = "wma" -> wma(close, L)
      [] fn = "alma" -> alma(close, L, Q(85, 100), R(6))
      [] fn = "stdev" -> stdev(close, L)
      [] fn = "dev" -> dev(close, L)
      [] fn = "variance" -> variance(close, L, TRUE)
      [] fn = "highest" -> highest(close, L)
      [] fn = "lowest" -> lowest(close, L)
      [] fn = "cmo" -> cmo(close, L)
      [] fn = "roc" -> roc(close, L)
      [] fn = "mom" -> mom(close, L)
      [] fn = "linreg" -> linreg(close, L, R(0))

\* C17: for every function with a length parameter and every non-integer
\* length L >= 1, the result is, element by element, the result for
\* floor(L).
C17_FloorLength ==
    (pc = "returned" /\ arg[1][2] # 1) => out[1] = ResultFor(R(mathFloor(arg[1])))

-----------------------------------------------------------------------------
(* recomputation on a prefix of the bars: C18 *)

MaxBarsPrefix == 3
MaxPricePrefix == 3

InitPrefix == InitBars(SeqsUpTo(ValidBars(Prices(MaxPricePrefix), {R(1)}), MaxBarsPrefix))

NextPrefix ==
    \/ \E length \in Periods : Call_ema(length)
    \/ \E length \in Periods : Call_rma(length)
    \/ \E length \in Periods : Call_atr(length)
    \/ \E length \in Periods : Call_rsi(length)
    \/ \E factor \in {R(1), Q(1, 2)}, atrPeriod \in Periods : Call_supertrend(factor, atrPeriod)
    \/ Call_sar(Q(2, 100), Q(2, 100), Q(2, 10))
    \/ \E length \in Periods : Call_dmi(length)

SpecPrefix == InitPrefix /\ [][NextPrefix]_vars

\* what the returned function returns on the bars h, l, c with the same parameters
OutputOn(h, l, c) ==
    CASE fn = "ema" -> <<ema(c, arg[1])>>
      [] fn = "rma" -> <<rma(c, arg[1])>>
      [] fn = "atr" -> <<atr(h, l, c, arg[1])>>
      [] fn = "rsi" -> <<rsi(c, arg[1])>>
      [] fn = "supertrend" -> supertrend(h, l, c, arg[1], arg[2])
      [] fn = "sar" -> <<sar(h, l, arg[1], arg[2], arg[3])>>
      [] fn = "dmi" -> dmi(h, l, c, arg[1])

\* the first k elements of s (all of s when it has fewer)
Take(s, k) == IF k >= Len(s) THEN s ELSE IF k = 0 THEN <<>> ELSE SubSeq(s, 1, k)

\* f on the first k bars is the first k elements of f on all the bars
PrefixConsistent(k) ==
    LET part == OutputOn(Take(high, k), Take(low, k), Take(close, k))
    IN  \A j \in 1..Len(out) : part[j] = Take(out[j], k)

\* C18: for ema, rma, atr, rsi, supertrend (value and direction), sar and dmi,
\* every finite input of n bars and every k <= n, the function applied to the
\* first k bars returns the first k elements of what it returns on all n
\* bars.
C18_PrefixConsistent ==
    (pc = "returned" /\ fn \in {"ema", "rma", "atr", "rsi", "supertrend", "sar", "dmi"}) =>
        \A k \in 0..Len(close) : PrefixConsistent(k)

-----------------------------------------------------------------------------
(* rma on sources that may hold NaN: C19 *)

MaxBarsRma == 5
MaxValueRma == 2    \* source values are NaN and 1..MaxValueRma

ValuesRma == {NaN} \cup Prices(MaxValueRma)

InitRma == InitSeries(SeqsUpTo(ValuesRma, MaxBarsRma), {Ones(n) : n \in 0..MaxBarsRma})

NextRma == \E length \in Lengths : Call_rma(length)

SpecRma == InitRma /\ [][NextRma]_vars

\* the non-NaN values of source[0..i], in order
ValidUpTo(source, i) == SelectSeq(Take(source, i + 1), LAMBDA x : ~isNaN(x))

\* C19: for a source of finite or NaN elements and an integer length >= 1,
\* rma(source, length)[i] is NaN iff source[0..i] holds fewer than length
\* non-NaN values; at the index of the length-th non-NaN value it is the mean
\* of the first length non-NaN values; at every later index it is
\* (1/length) * source[i] + (1 - 1/length) * v[i-1] when source[i] is not NaN
\* and v[i-1] when it is.
C19_Rma ==
    Returned("rma") =>
        LET length == arg[1][1]
            v == out[1]
        IN  /\ Len(v) = Len(close)
            /\ \A i \in 0..(Len(close) - 1) :
                LET valid == ValidUpTo(close, i)
                IN  /\ isNaN(At(v, i)) <=> Len(valid) < length
                    /\ (Len(valid) = length /\ ~isNaN(At(close, i))) =>
                            Eq(Mul(At(v, i), R(length)), SumSeq(valid))
                    /\ (Len(valid) > length /\ ~isNaN(At(close, i))) =>
                            Eq(At(v, i),
                               Add(Mul(Q(1, length), At(close, i)),
                                   Mul(Sub(R(1), Q(1, length)), At(v, i - 1))))
                    /\ (Len(valid) >= length /\ isNaN(At(close, i))) =>
                            Eq(At(v, i), At(v, i - 1))

\* a NaN before the seed, a NaN held after it, then the recurrence
C19_Witness ==
    /\ Returned("rma")
    /\ arg[1] = R(2)
    /\ close = <<R(1), NaN, R(2), NaN, R(2)>>
    /\ out[1] = <<NaN, NaN, Q(3, 2), Q(3, 2), Q(7, 4)>>

-----------------------------------------------------------------------------
(* supertrend: the emitted band between two bars of equal direction: C20 *)

\* C20: in supertrend with factor >= 0 on finite input, for consecutive bars
\* i-1, i whose values are both defined and whose directions are equal, the
\* value only tightens: value[i] >= value[i-1] when both directions are -1
\* and value[i] <= value[i-1] when both are 1, the first bar with a defined
\* ATR included (bar i is the bar just processed).
C20_OnlyTightens ==
    (fn = "supertrend" /\ pc = "running" /\ st.i >= 2
        /\ ~isNaN(st.result[st.i]) /\ ~isNaN(st.result[st.i - 1])
        /\ st.directions[st.i] = st.directions[st.i - 1]) =>
        IF st.directions[st.i] = -1
        THEN Ge(st.result[st.i], st.result[st.i - 1])
        ELSE Le(st.result[st.i], st.result[st.i - 1])

\* C20 amended: for consecutive bars i-1, i whose values are both defined
\* and whose directions are equal, the value tightens (value[i] >=
\* value[i-1] when both are -1, value[i] <= value[i-1] when both are 1)
\* unless close[i-1] was beyond the value at i-1 (below it for -1, above it
\* for 1), in which case value[i] is the new candidate
\* (high[i] + low[i]) / 2 -/+ factor * atr[i].
C20_TightensUnlessSnap ==
    (fn = "supertrend" /\ pc = "running" /\ st.i >= 2
        /\ ~isNaN(st.result[st.i]) /\ ~isNaN(st.result[st.i - 1])
        /\ st.directions[st.i] = st.directions[st.i - 1]) =>
        LET i == st.i - 1
            now == st.result[st.i]
            before == st.result[st.i - 1]
            hl2 == Div(Add(At(high, i), At(low, i)), R(2))
            width == Mul(arg[1], At(atr(high, low, close, arg[2]), i))
        IN  IF st.directions[st.i] = -1
            THEN IF Lt(At(close, i - 1), before) THEN Eq(now, Sub(hl2, width))
                 ELSE Ge(now, before)
            ELSE IF Gt(At(close, i - 1), before) THEN Eq(now, Add(hl2, width))
                 ELSE Le(now, before)

\* the lower band fell between two bars of direction -1, after a close below it
C20_Witness ==
    /\ fn = "supertrend"
    /\ pc = "running"
    /\ st.i >= 2
    /\ st.directions[st.i] = -1
    /\ st.directions[st.i - 1] = -1
    /\ Lt(At(close, st.i - 2), st.result[st.i - 1])
    /\ Lt(st.result[st.i], st.result[st.i - 1])

-----------------------------------------------------------------------------
(* supertrend: the warm-up of the ATR and the emitted band: C21 *)

MaxBarsWarm == 4
MaxPriceWarm == 2

\* any finite bars (a high below the low included)
InitWarm ==
    InitBars(SeqsUpTo([h : Prices(MaxPriceWarm), l : Prices(MaxPriceWarm),
                       c : Prices(MaxPriceWarm), v : {R(1)}], MaxBarsWarm))

NextWarm ==
    \/ \E factor \in {R(-1), R(0), R(1)}, atrPeriod \in {R(1), R(2), R(3)} :
            supertrendEnter(factor, atrPeriod)
    \/ supertrendIterate
    \/ supertrendReturn

SpecWarm == InitWarm /\ [][NextWarm]_vars

\* C21: for supertrend on finite inputs with an integer atrPeriod >= 1, at
\* every bar i < atrPeriod - 1 the value is NaN and the direction is 1; at
\* every bar i >= atrPeriod - 1 the value is not NaN, the direction is 1 or
\* -1, and the value is the lower band when the direction is -1 and the upper
\* band when it is 1 (for the bar just processed the bands are prevLower and
\* prevUpper); the first bar with a defined ATR has direction 1.
C21_WarmUpAndBand ==
    (fn = "supertrend" /\ pc \in {"running", "returned"}) =>
        LET atrPeriod == arg[2][1]
        IN  /\ \A k \in 1..Len(st.result) :
                IF k - 1 < atrPeriod - 1
                THEN isNaN(st.result[k]) /\ st.directions[k] = 1
                ELSE /\ ~isNaN(st.result[k])
                     /\ st.directions[k] \in {1, -1}
                     /\ (k - 1 = atrPeriod - 1) => st.directions[k] = 1
            /\ (st.i >= 1 /\ st.i - 1 >= atrPeriod - 1) =>
                    st.result[st.i] = (IF st.directions[st.i] = -1
                                       THEN st.prevLower ELSE st.prevUpper)
            /\ pc = "returned" => out = <<st.result, st.directions>>

\* a call with atrPeriod 3 on 4 bars has returned: two bars of warm-up, the
\* first defined bar with direction 1 and a last bar on the lower band
C21_Witness ==
    /\ Returned("supertrend")
    /\ arg[2] = R(3)
    /\ Len(out[1]) = 4
    /\ isNaN(out[1][2]) /\ ~isNaN(out[1][3])
    /\ out[2] = <<1, 1, 1, -1>>
    /\ out[1][4] = st.prevLower
    /\ st.prevLower # st.prevUpper

-----------------------------------------------------------------------------
(* sar: the acceleration factor and the flip: C22 *)

MaxBarsAf == 4
MaxPriceAf == 3

\* bars of sar: high and low, finite or NaN, low <= high when both are finite
BarsAf ==
    {b \in [h : Prices(MaxPriceAf) \cup {NaN}, l : Prices(MaxPriceAf) \cup {NaN},
            c : {R(1)}, v : {R(1)}] :
        isNaN(b.l) \/ isNaN(b.h) \/ Le(b.l, b.h)}

InitAf == InitBars(SeqsUpTo(BarsAf, MaxBarsAf))

\* <<start, inc, maxAF>> with 0 < start <= maxAF and inc >= 0
ParamsAf ==
    {<<Q(1, 10), Q(1, 10), Q(1, 4)>>, <<Q(1, 10), R(0), Q(1, 5)>>,
     <<Q(1, 5), Q(1, 10), Q(1, 5)>>}

NextAf ==
    \/ \E p \in ParamsAf : sarEnter(p[1], p[2], p[3])
    \/ sarIterate
    \/ sarReturn

SpecAf == InitAf /\ [][NextAf]_vars

\* bar sr.i of a running sar goes beyond the extreme point held so far
NewExtreme ==
    IF sr.isLong THEN Gt(At(high, sr.i), sr.ep) ELSE Lt(At(low, sr.i), sr.ep)

\* C22: in sar with 0 < start <= maxAF and inc >= 0, after every bar
\* start <= af <= maxAF; on a bar where the long/short flag flips af is start,
\* the emitted SAR is the extreme point held before the flip and the new
\* extreme point is the triggering price (low[i] on a flip to short, high[i]
\* on a flip to long); on a bar without a flip where a new extreme point is set
\* (high[i] > ep while long, low[i] < ep while short) af becomes
\* min(af + inc, maxAF); on every other bar af is unchanged.
C22_AccelerationFactor ==
    /\ []((fn = "sar" /\ pc = "running") =>
            (Le(arg[1], sr.af) /\ Le(sr.af, arg[3])))
    /\ [][(fn = "sar" /\ pc = "running" /\ sr.i >= 1 /\ sr'.i = sr.i + 1) =>
            LET i == sr.i
                flip == sr'.isLong # sr.isLong
            IN  /\ flip =>
                    /\ sr'.af = arg[1]
                    /\ sr'.sarVal = sr.ep
                    /\ sr'.result[i + 1] = sr.ep
                    /\ sr'.ep = (IF sr'.isLong THEN At(high, i) ELSE At(low, i))
                /\ (~flip /\ NewExtreme) =>
                    /\ sr'.af = mathMin2(Add(sr.af, arg[2]), arg[3])
                    /\ sr'.ep = (IF sr.isLong THEN At(high, i) ELSE At(low, i))
                /\ (~flip /\ ~NewExtreme) =>
                    /\ sr'.af = sr.af
                    /\ sr'.ep = sr.ep]_vars

\* a sar that reached the cap maxAF after two new extremes and then flipped
\* to short: af is start again and the SAR is the extreme point before the flip
C22_Witness ==
    /\ fn = "sar" /\ pc = "running" /\ sr.i = 4
    /\ arg = <<Q(1, 10), Q(1, 10), Q(1, 4)>>
    /\ ~sr.isLong
    /\ sr.af = Q(1, 10)
    /\ sr.result[4] = At(high, 2)
    /\ sr.ep = At(low, 3)
    /\ Lt(At(high, 0), At(high, 1)) /\ Lt(At(high, 1), At(high, 2))

-----------------------------------------------------------------------------
(* pivothigh, pivotlow: C23 *)

MaxBarsPivot == 5
MaxValuePivot == 3
MaxSidePivot == 2    \* leftBars and rightBars are 0..MaxSidePivot

InitPivot ==
    InitSeries(SeqsUpTo(Prices(MaxValuePivot), MaxBarsPivot),
               {Ones(n) : n \in 0..MaxBarsPivot})

NextPivot ==
    \/ \E leftBars \in 0..MaxSidePivot, rightBars \in 0..MaxSidePivot :
            Call_pivothigh(leftBars, rightBars)
    \/ \E leftBars \in 0..MaxSidePivot, rightBars \in 0..MaxSidePivot :
            Call_pivotlow(leftBars, rightBars)

SpecPivot == InitPivot /\ [][NextPivot]_vars

\* C23: for every finite source and integers leftBars, rightBars >= 0,
\* pivothigh(source, leftBars, rightBars)[k] is not NaN iff the candidate
\* c = k - rightBars satisfies c >= leftBars, source[c] > source[c-j] for
\* every 1 <= j <= leftBars and source[c] > source[c+j] for every
\* 1 <= j <= rightBars, and then the value is source[c]; pivotlow is the same
\* with < in place of >; with rightBars >= 1 the index of a reported pivot is
\* never the index of its candidate.
C23_Pivots ==
    (Returned("pivothigh") \/ Returned("pivotlow")) =>
        LET leftBars == arg[1]
            rightBars == arg[2]
            n == Len(close)
            Beyond(x, y) == IF fn = "pivothigh" THEN Gt(x, y) ELSE Lt(x, y)
        IN  /\ Len(out[1]) = n
            /\ \A k \in 0..(n - 1) :
                LET c == k - rightBars
                    ok == /\ c >= leftBars
                          /\ \A j \in 1..leftBars : Beyond(close[c + 1], close[c - j + 1])
                          /\ \A j \in 1..rightBars : Beyond(close[c + 1], close[c + j + 1])
                IN  /\ ~isNaN(out[1][k + 1]) <=> ok
                    /\ ok => out[1][k + 1] = close[c + 1]
                    /\ (ok /\ rightBars >= 1) => k # c

\* the peak of <<1, 3, 2, 1>> at index 1 is reported by pivothigh(., 1, 2) at
\* index 3
C23_Witness ==
    /\ Returned("pivothigh")
    /\ close = <<R(1), R(3), R(2), R(1)>>
    /\ arg = <<1, 2>>
    /\ out[1] = <<NaN, NaN, NaN, R(3)>>

-----------------------------------------------------------------------------
(* ichimoku: the lagging span: C24 *)

MaxBarsChikou == 3
MaxPriceChikou == 2
MaxDisplacement == 4    \* displacement is 0..MaxDisplacement

InitChikou == InitBars(SeqsUpTo(ValidBars(Prices(MaxPriceChikou), {R(1)}), MaxBarsChikou))

NextChikou ==
    \E displacement \in 0..MaxDisplacement :
        Call_ichimoku(R(1), R(2), R(2), displacement)

SpecChikou == InitChikou /\ [][NextChikou]_vars

\* C24: for ichimoku on a close series of length n and every integer
\* displacement >= 0 (a displacement above n included), chikou has length n,
\* chikou[i] = close[i + displacement] for every i with i + displacement < n,
\* and chikou[i] is NaN for every other i < n.
C24_Chikou ==
    Returned("ichimoku") =>
        LET n == Len(close)
            displacement == arg[4]
            chikou == out[5]
        IN  /\ Len(chikou) = n
            /\ \A i \in 0..(n - 1) :
                IF i + displacement < n
                THEN At(chikou, i) = At(close, i + displacement)
                ELSE isNaN(At(chikou, i))

-----------------------------------------------------------------------------
(* dmi: the directional movement, one bar at a time: C25 *)

MaxBarsDM == 4

\* the declarations before the loop: plusDM = [0], minusDM = [0]
dmiEnter(length) ==
    /\ pc = "idle"
    /\ fn' = "dmi"
    /\ arg' = <<length>>
    /\ st' = [i |-> 1, plusDM |-> <<R(0)>>, minusDM |-> <<R(0)>>]
    /\ pc' = "running"
    /\ UNCHANGED <<high, low, close, volume, out, sr, bd, dm, obs>>

\* one iteration of the loop over the bars 1 .. high.length - 1
dmiIterate ==
    /\ pc = "running"
    /\ fn = "dmi"
    /\ st.i < Len(high)
    /\ st' = [i |-> st.i + 1,
              plusDM |-> Append(st.plusDM, dmiPlusDM(high, low)[st.i + 1]),
              minusDM |-> Append(st.minusDM, dmiMinusDM(high, low)[st.i + 1])]
    /\ UNCHANGED <<high, low, close, volume, fn, arg, out, pc, sr, bd, dm, obs>>

\* the loop is over: the smoothing and return [plusDI, minusDI, adx]
dmiReturn ==
    /\ pc = "running"
    /\ fn = "dmi"
    /\ st.i >= Len(high)
    /\ out' = dmi(high, low, close, arg[1])
    /\ pc' = "returned"
    /\ UNCHANGED <<high, low, close, volume, fn, arg, st, sr, bd, dm, obs>>

InitDM == InitBars(SeqsUpTo(BarsAf, MaxBarsDM))

NextDM ==
    \/ \E length \in {R(1), R(2)} : dmiEnter(length)
    \/ dmiIterate
    \/ dmiReturn

SpecDM == InitDM /\ [][NextDM]_vars

\* C25: in dmi, for every bar i >= 1 with upMove = high[i] - high[i-1] and
\* downMove = low[i-1] - low[i], +DM[i] is upMove if upMove > downMove and
\* upMove > 0 and otherwise 0, and -DM[i] is downMove if downMove > upMove and
\* downMove > 0 and otherwise 0; both are >= 0, at most one of them is
\* non-zero on a bar, both are 0 when upMove = downMove, and both are 0 at
\* bar 0.
C25_DirectionalMovement ==
    (fn = "dmi" /\ pc \in {"running", "returned"}) =>
        /\ Len(st.plusDM) = st.i /\ Len(st.minusDM) = st.i
        /\ st.plusDM[1] = R(0) /\ st.minusDM[1] = R(0)
        /\ \A i \in 1..(st.i - 1) :
            LET upMove == Sub(high[i + 1], high[i])
                downMove == Sub(low[i], low[i + 1])
                plus == st.plusDM[i + 1]
                minus == st.minusDM[i + 1]
            IN  /\ plus = (IF Gt(upMove, downMove) /\ Gt(upMove, R(0)) THEN upMove ELSE R(0))
                /\ minus = (IF Gt(downMove, upMove) /\ Gt(downMove, R(0))
                            THEN downMove ELSE R(0))
                /\ Ge(plus, R(0)) /\ Ge(minus, R(0))
                /\ plus = R(0) \/ minus = R(0)
                /\ Eq(upMove, downMove) => (plus = R(0) /\ minus = R(0))
        /\ pc = "returned" =>
            (st.plusDM = dmiPlusDM(high, low) /\ st.minusDM = dmiMinusDM(high, low))

\* a dmi over bars with an up move (bar 1), a down move (bar 2) and an inside
\* bar whose two moves are equal and positive (bar 3)
C25_Witness ==
    /\ fn = "dmi" /\ pc = "returned"
    /\ Len(high) = 4
    /\ st.plusDM = <<R(0), R(1), R(0), R(0)>>
    /\ st.minusDM = <<R(0), R(0), R(1), R(0)>>
    /\ Sub(high[4], high[3]) = R(1)
    /\ Sub(low[3], low[4]) = R(1)

-----------------------------------------------------------------------------
(* linreg on an arithmetic progression: C26 *)

MaxBarsLine == 5
MaxStartLine == 2     \* the progression starts at 0..MaxStartLine
MaxOffsetLine == 2    \* offset is -1..MaxOffsetLine

\* the slopes a of the progressions source[i] = a * i + b
SlopesLine == {R(-2), R(-1), R(0), Q(1, 2), R(1), R(3)}

Progression(a, b, n) == [k \in 1..n |-> Add(Mul(a, R(k - 1)), b)]

InitLine ==
    InitSeries({Progression(a, R(b), n) :
                    a \in SlopesLine, b \in 0..MaxStartLine, n \in 0..MaxBarsLine},
               {Ones(n) : n \in 0..MaxBarsLine})

NextLine ==
    \E length \in {R(2), R(3), R(4)}, offset \in (-1)..MaxOffsetLine :
        Call_linreg_offset(length, R(offset))

SpecLine == InitLine /\ [][NextLine]_vars

\* C26: for every source that is an arithmetic progression
\* source[i] = a * i + b, every integer length >= 2 and integer offset k,
\* linreg(source, length, k)[i] is NaN for i < length - 1 and equals
\* source[i] - a * k for every i >= length - 1.
C26_LinregExactLine ==
    Returned("linreg") =>
        LET length == arg[1][1]
            k == arg[2]
            a == IF Len(close) >= 2 THEN Sub(close[2], close[1]) ELSE R(0)
        IN  /\ Len(out[1]) = Len(close)
            /\ \A i \in 0..(Len(close) - 1) :
                IF i < length - 1 THEN isNaN(out[1][i + 1])
                ELSE out[1][i + 1] = Sub(close[i + 1], Mul(a, k))

\* linreg(<<1, 3/2, 2, 5/2, 3>>, 3, 2) = <<NaN, NaN, 1, 3/2, 2>>
C26_Witness ==
    /\ Returned("linreg")
    /\ close = Progression(Q(1, 2), R(1), 5)
    /\ arg = <<R(3), R(2)>>
    /\ out[1] = <<NaN, NaN, R(1), Q(3, 2), R(2)>>

-----------------------------------------------------------------------------
(* dmi: the warm-up and the range of +DI, -DI and ADX: C27 *)

MaxBarsAdx == 5
MaxPriceAdx == 2
MaxLengthAdx == 3

\* finite bars with low <= high and any close
BarsAdx ==
    {b \in [h : Prices(MaxPriceAdx), l : Prices(MaxPriceAdx), c : Prices(MaxPriceAdx),
            v : {R(1)}] : Le(b.l, b.h)}

InitAdx == InitBars(SeqsUpTo(BarsAdx, MaxBarsAdx))

NextAdx == \E length \in 1..MaxLengthAdx : Call_dmi(R(length))

SpecAdx == InitAdx /\ [][NextAdx]_vars

\* C27: for dmi on finite inputs with high >= low at every bar and an integer
\* length >= 1, +DI and -DI are NaN exactly at the indices i < length - 1,
\* ADX is NaN exactly at the indices i < 2 * (length - 1), and wherever they
\* are defined +DI >= 0, -DI >= 0 and 0 <= ADX <= 100.
C27_DmiWarmUpAndRange ==
    Returned("dmi") =>
        LET length == arg[1][1]
            plusDI == out[1]
            minusDI == out[2]
            adx == out[3]
        IN  /\ \A k \in 1..Len(plusDI) : isNaN(plusDI[k]) <=> (k - 1 < length - 1)
            /\ \A k \in 1..Len(minusDI) : isNaN(minusDI[k]) <=> (k - 1 < length - 1)
            /\ \A k \in 1..Len(adx) : isNaN(adx[k]) <=> (k - 1 < 2 * (length - 1))
            /\ \A k \in 1..Len(plusDI) : isNaN(plusDI[k]) \/ Ge(plusDI[k], R(0))
            /\ \A k \in 1..Len(minusDI) : isNaN(minusDI[k]) \/ Ge(minusDI[k], R(0))
            /\ \A k \in 1..Len(adx) :
                isNaN(adx[k]) \/ (Ge(adx[k], R(0)) /\ Le(adx[k], R(100)))

-----------------------------------------------------------------------------
(* highestbars, lowestbars against highest, lowest: C28 *)

MaxBarsOff == 5
MaxValueOff == 3

InitOff ==
    InitSeries(SeqsUpTo(Prices(MaxValueOff), MaxBarsOff), {Ones(n) : n \in 0..MaxBarsOff})

NextOff ==
    \/ \E length \in Lengths : Call_highestbars(length)
    \/ \E length \in Lengths : Call_lowestbars(length)

SpecOff == InitOff /\ [][NextOff]_vars

\* C28: for every finite source, integer length >= 1 and index
\* i >= length - 1, the offset o = highestbars(source, length)[i] satisfies
\* -(length - 1) <= o <= 0 and source[i + o] = highest(source, length)[i], and
\* no element of the window more recent than i + o has that value (o points
\* to the most recent occurrence of the maximum); the same for lowestbars and
\* lowest.
C28_OffsetsAgree ==
    (Returned("highestbars") \/ Returned("lowestbars")) =>
        LET length == arg[1][1]
            extreme == IF fn = "highestbars" THEN highest(close, arg[1])
                       ELSE lowest(close, arg[1])
        IN  /\ Len(out[1]) = Len(close)
            /\ \A i \in 0..(Len(close) - 1) :
                IF i < length - 1 THEN isNaN(out[1][i + 1])
                ELSE LET o == out[1][i + 1][1]
                     IN  /\ out[1][i + 1][2] = 1
                         /\ -(length - 1) <= o /\ o <= 0
                         /\ close[i + o + 1] = extreme[i + 1]
                         /\ \A m \in (i + o + 1)..i : close[m + 1] # extreme[i + 1]

\* highestbars(<<1, 3, 3, 2>>, 4)[3] = -1: the maximum 3 occurs at the indices
\* 1 and 2 and the offset points to index 2
C28_Witness ==
    /\ Returned("highestbars")
    /\ close = <<R(1), R(3), R(3), R(2)>>
    /\ arg = <<R(4)>>
    /\ out[1] = <<NaN, NaN, NaN, R(-1)>>

-----------------------------------------------------------------------------
(* BarData (series.ts): version and cache: C29 *)

MaxCandles == 2         \* candles of a BarData
MaxCandleValue == 2     \* a candle is modelled by one of its prices, 1..MaxCandleValue
MaxVersion == 3         \* the calls that raise the version stop there

Candles == 1..MaxCandleValue
CandleArrays == SeqsUpTo(Candles, MaxCandles)

\* the history of a BarData: mutations counts the update, push and updateLast
\* calls that changed the candles, computes lists the compute() calls made by
\* getCached as [key, mutations, value]
HistoryBD == [mutations |-> 0, computes |-> <<>>]

\* compute(): the callback of the caller; call number n returns the new value n
compute == Len(obs.computes) + 1

\* update that leaves the version alone
BarData_update_noversion(newCandles) ==
    /\ pc \in {"idle", "returned"}
    /\ bd.version < MaxVersion
    /\ bd' = [candles |-> newCandles, version |-> bd.version, cache |-> NewMap(Keys)]
    /\ obs' = [obs EXCEPT !.mutations = @ + 1]
    /\ fn' = "update" /\ arg' = <<newCandles>> /\ out' = <<>> /\ pc' = "returned"
    /\ UNCHANGED <<high, low, close, volume, st, sr, dm>>

\* update(newCandles)
BarData_update(newCandles) ==
    /\ pc \in {"idle", "returned"}
    /\ bd.version < MaxVersion
    /\ bd' = [candles |-> newCandles, version |-> bd.version + 1, cache |-> NewMap(Keys)]
    /\ obs' = [obs EXCEPT !.mutations = @ + 1]
    /\ fn' = "update" /\ arg' = <<newCandles>> /\ out' = <<>> /\ pc' = "returned"
    /\ UNCHANGED <<high, low, close, volume, st, sr, dm>>

\* push(candle)
BarData_push(candle) ==
    /\ pc \in {"idle", "returned"}
    /\ bd.version < MaxVersion
    /\ Len(bd.candles) < MaxCandles
    /\ bd' = [candles |-> Append(bd.candles, candle), version |-> bd.version + 1,
              cache |-> NewMap(Keys)]
    /\ obs' = [obs EXCEPT !.mutations = @ + 1]
    /\ fn' = "push" /\ arg' = <<candle>> /\ out' = <<>> /\ pc' = "returned"
    /\ UNCHANGED <<high, low, close, volume, st, sr, dm>>

\* updateLast(candle)
BarData_updateLast(candle) ==
    /\ pc \in {"idle", "returned"}
    /\ IF Len(bd.candles) > 0
       THEN /\ bd.version < MaxVersion
            /\ bd' = [candles |-> [bd.candles EXCEPT ![Len(bd.candles)] = candle],
                      version |-> bd.version + 1, cache |-> NewMap(Keys)]
            /\ obs' = [obs EXCEPT !.mutations = @ + 1]
       ELSE UNCHANGED <<bd, obs>>
    /\ fn' = "updateLast" /\ arg' = <<candle>> /\ out' = <<>> /\ pc' = "returned"
    /\ UNCHANGED <<high, low, close, volume, st, sr, dm>>

\* getCached(key, compute)
BarData_getCached(key) ==
    /\ pc \in {"idle", "returned"}
    /\ IF bd.cache[key] # <<>> /\ bd.cache[key][1].version = bd.version
       THEN /\ out' = <<bd.cache[key][1].value>>
            /\ UNCHANGED <<bd, obs>>
       ELSE /\ bd' = [bd EXCEPT !.cache[key] = <<[value |-> compute, version |-> bd.version]>>]
            /\ out' = <<compute>>
            /\ obs' = [obs EXCEPT !.computes =
                            Append(@, [key |-> key, mutations |-> obs.mutations,
                                       value |-> compute])]
    /\ fn' = "getCached" /\ arg' = <<key>> /\ pc' = "returned"
    /\ UNCHANGED <<high, low, close, volume, st, sr, dm>>

InitBD ==
    /\ bd \in {BarData(c) : c \in CandleArrays}
    /\ obs = HistoryBD
    /\ dm = ChartScriptDrawingsModel
    /\ high = <<>> /\ low = <<>> /\ close = <<>> /\ volume = <<>>
    /\ fn = "" /\ arg = <<>> /\ out = <<>> /\ pc = "idle"
    /\ st = NoLocals /\ sr = NoLocals

NextBD ==
    \/ \E newCandles \in CandleArrays : BarData_update(newCandles)
    \/ \E candle \in Candles : BarData_push(candle)
    \/ \E candle \in Candles : BarData_updateLast(candle)
    \/ \E key \in Keys : BarData_getCached(key)

SpecBD == InitBD /\ [][NextBD]_vars

\* C29: after any sequence of update, push, updateLast and getCached calls,
\* getCached(key, compute) returns a value that a compute() call for that key
\* produced after the most recent call that changed the candles; between two
\* such calls compute runs at most once per key; the version never decreases,
\* grows by exactly 1 on every update, every push and every updateLast on a
\* non-empty BarData, and updateLast on an empty BarData changes neither the
\* candles, the version nor the cache.
C29_NoStaleValue ==
    /\ []((fn = "getCached" /\ pc = "returned") =>
            \E n \in 1..Len(obs.computes) :
                /\ obs.computes[n].key = arg[1]
                /\ obs.computes[n].mutations = obs.mutations
                /\ obs.computes[n].value = out[1])
    /\ [](\A m, n \in 1..Len(obs.computes) :
            (obs.computes[m].key = obs.computes[n].key
                /\ obs.computes[m].mutations = obs.computes[n].mutations) => m = n)
    /\ [][/\ bd'.version >= bd.version
          /\ (fn' \in {"update", "push"} \/ (fn' = "updateLast" /\ bd.candles # <<>>)) =>
                bd'.version = bd.version + 1
          /\ (fn' = "updateLast" /\ bd.candles = <<>>) => bd' = bd
          /\ fn' = "getCached" => (bd'.version = bd.version /\ bd'.candles = bd.candles)]_vars

\* getCached("k1") returns the value of the third compute() call: the first
\* was made before a push, the second for the other key
C29_Witness ==
    /\ fn = "getCached" /\ pc = "returned" /\ arg = <<"k1">>
    /\ out = <<3>>
    /\ obs.mutations = 1
    /\ Len(obs.computes) = 3
    /\ obs.computes[1].key = "k1" /\ obs.computes[1].mutations = 0
    /\ bd.cache["k1"] = <<[value |-> 3, version |-> 1]>>

-----------------------------------------------------------------------------
(* ChartScriptDrawingsModel: drawings and the emissions of changed: C30 *)

MaxDrawingValue == 2    \* a drawing is its id and one of 1..MaxDrawingValue
MaxCallsDM == 5         \* calls on the model in one behaviour

Drawings == [id : Ids, v : 1..MaxDrawingValue]

\* the history of a model: expected counts the calls that have to emit, live
\* is the set of ids added and not removed or cleared since, last[id] is the
\* drawing most recently added or updated under id
HistoryDM == [calls |-> 0, expected |-> 0, live |-> {}, last |-> NewMap(Ids)]

\* has(id), get(id) (<<>> is undefined) and size
Drawings_has(id) == dm.drawings[id] # <<>>
Drawings_get(id) == dm.drawings[id]
Drawings_size == Cardinality({id \in Ids : dm.drawings[id] # <<>>})

\* the call is recorded and the other variables are left alone
CallDM(name, a) ==
    /\ pc \in {"idle", "returned"}
    /\ obs.calls < MaxCallsDM
    /\ fn' = name /\ arg' = a /\ out' = <<>> /\ pc' = "returned"
    /\ UNCHANGED <<high, low, close, volume, st, sr, bd>>

\* add(drawing)
Drawings_add(drawing) ==
    /\ CallDM("add", <<drawing>>)
    /\ dm' = [drawings |-> [dm.drawings EXCEPT ![drawing.id] = <<drawing>>],
              changed |-> dm.changed + 1]
    /\ obs' = [calls |-> obs.calls + 1, expected |-> obs.expected + 1,
               live |-> obs.live \cup {drawing.id},
               last |-> [obs.last EXCEPT ![drawing.id] = <<drawing>>]]

\* update that does not test has(drawing.id)
Drawings_update_insert(drawing) ==
    /\ CallDM("update", <<drawing>>)
    /\ dm' = [drawings |-> [dm.drawings EXCEPT ![drawing.id] = <<drawing>>],
              changed |-> dm.changed + 1]
    /\ obs' = IF drawing.id \in obs.live
              THEN [obs EXCEPT !.calls = @ + 1, !.expected = @ + 1,
                               !.last[drawing.id] = <<drawing>>]
              ELSE [obs EXCEPT !.calls = @ + 1]

\* update(drawing)
Drawings_update(drawing) ==
    /\ CallDM("update", <<drawing>>)
    /\ dm' = IF Drawings_has(drawing.id)
             THEN [drawings |-> [dm.drawings EXCEPT ![drawing.id] = <<drawing>>],
                   changed |-> dm.changed + 1]
             ELSE dm
    /\ obs' = IF drawing.id \in obs.live
              THEN [obs EXCEPT !.calls = @ + 1, !.expected = @ + 1,
                               !.last[drawing.id] = <<drawing>>]
              ELSE [obs EXCEPT !.calls = @ + 1]

\* remove(id)
Drawings_remove(id) ==
    /\ CallDM("remove", <<id>>)
    /\ dm' = IF Drawings_has(id)
             THEN [drawings |-> [dm.drawings EXCEPT ![id] = <<>>],
                   changed |-> dm.changed + 1]
             ELSE dm
    /\ obs' = IF id \in obs.live
              THEN [obs EXCEPT !.calls = @ + 1, !.expected = @ + 1, !.live = @ \ {id}]
              ELSE [obs EXCEPT !.calls = @ + 1]

\* clear()
Drawings_clear ==
    /\ CallDM("clear", <<>>)
    /\ dm' = IF Drawings_size > 0
             THEN [drawings |-> NewMap(Ids), changed |-> dm.changed + 1]
             ELSE dm
    /\ obs' = IF obs.live # {}
              THEN [obs EXCEPT !.calls = @ + 1, !.expected = @ + 1, !.live = {}]
              ELSE [obs EXCEPT !.calls = @ + 1]

InitDrawings ==
    /\ dm = ChartScriptDrawingsModel
    /\ obs = HistoryDM
    /\ bd = BarData(<<>>)
    /\ high = <<>> /\ low = <<>> /\ close = <<>> /\ volume = <<>>
    /\ fn = "" /\ arg = <<>> /\ out = <<>> /\ pc = "idle"
    /\ st = NoLocals /\ sr = NoLocals

NextDrawings ==
    \/ \E drawing \in Drawings : Drawings_add(drawing)
    \/ \E drawing \in Drawings : Drawings_update(drawing)
    \/ \E id \in Ids : Drawings_remove(id)
    \/ Drawings_clear

SpecDrawings == InitDrawings /\ [][NextDrawings]_vars

\* C30: over any sequence of add, update, remove and clear calls, changed
\* has emitted exactly once for each add, each update of a present id, each
\* remove of a present id and each clear of a non-empty model, and not for an
\* update or remove of an absent id or a clear of an empty model; update never
\* inserts an id; the size is the number of distinct ids added and not
\* removed or cleared since, and get(id) is the drawing most recently added or
\* updated under that id.
C30_DrawingsModel ==
    /\ [](/\ dm.changed = obs.expected
          /\ Drawings_size = Cardinality(obs.live)
          /\ \A id \in Ids :
                IF id \in obs.live THEN Drawings_get(id) = obs.last[id]
                ELSE Drawings_get(id) = <<>>)
    /\ [][/\ dm'.changed - dm.changed \in {0, 1}
          /\ fn' = "add" => dm'.changed = dm.changed + 1
          /\ fn' = "update" =>
                \A id \in Ids : dm'.drawings[id] # <<>> => dm.drawings[id] # <<>>
          /\ (fn' = "update" /\ dm.drawings[arg'[1].id] = <<>>) => dm' = dm
          /\ (fn' = "remove" /\ dm.drawings[arg'[1]] = <<>>) => dm' = dm
          /\ (fn' = "clear" /\ \A id \in Ids : dm.drawings[id] = <<>>) => dm' = dm]_vars

\* four calls ending with a clear() that emptied the model, of which three
\* emitted: b was never added, so one call was an update or a remove of an
\* absent id or a clear of an empty model
C30_Witness ==
    /\ fn = "clear" /\ pc = "returned"
    /\ obs.calls = 4
    /\ dm.changed = 3
    /\ Drawings_size = 0
    /\ obs.last["a"] # <<>> /\ obs.last["b"] = <<>>

====
